---- MODULE Spec2Model ----
(***************************************************************************)
(* A model of the Kodi backup engine (src/backup_engine.py): the path      *)
(* safety predicates, archive validation, safe extraction, the restore     *)
(* orchestrator and the archive builder.                                   *)
(*                                                                         *)
(* Strings are sequences of tokens.  A token is a separator ("/" or the    *)
(* backslash), a drive prefix ("C:"), the parent marker ("..") or a piece  *)
(* of a file name.  A path segment is the sequence of tokens between two   *)
(* separators, so that on POSIX a file name may hold a backslash.  No      *)
(* token of the universe is the concatenation of other tokens.             *)
(***************************************************************************)
EXTENDS Integers, Sequences, FiniteSets, TLC

VARIABLES
    platform,   \* "posix" or "nt": the os module the interpreter runs on
    cwd,        \* the process's working directory, an absolute segment list
    pf,         \* what an operation called on its own returned
    fs,         \* the file system: [files: path -> content, dirs: set of paths]
    zip,        \* the archive file: [exists, ext, state, members]
    arg,        \* the arguments of the running operation
    pc,         \* the position of the running operation
    loc,        \* the local variables of the running operation
    res,        \* the result record the operation builds and returns
    hist        \* history: the steps taken, the file system at the call, ...

vars == <<platform, cwd, pf, fs, zip, arg, pc, loc, res, hist>>

-----------------------------------------------------------------------------
(* Tokens and strings *)

Sep == "/"
Bsl == "\\"
DriveTok == "C:"
DotDot == ".."

Platforms == {"posix", "nt"}

\* os.sep and os.altsep of the platform: the characters that split a path
Seps(plat) == IF plat = "nt" THEN {Sep, Bsl} ELSE {Sep}

\* re.match(r"^[A-Za-z]:", s): only the drive token starts with letter, colon
IsDriveTok(t) == t = DriveTok

\* str.lower() on one token
Lower(t) ==
    CASE t = "T" -> "t"
      [] t = "C:" -> "c:"
      [] t = "Desktop.ini" -> "desktop.ini"
      [] t = "Thumbs.db" -> "thumbs.db"
      [] t = ".DS_Store" -> ".ds_store"
      [] t = "ZIP" -> "zip"
      [] OTHER -> t

\* s.replace("\\", "/")
ReplaceBackslash(s) ==
    [i \in 1..Len(s) |-> IF s[i] = Bsl THEN Sep ELSE s[i]]

\* s.rstrip("\\/")
RECURSIVE RStrip(_)
RStrip(s) ==
    IF s # <<>> /\ s[Len(s)] \in {Sep, Bsl}
    THEN RStrip(SubSeq(s, 1, Len(s) - 1))
    ELSE s

\* s.split(sep) for any sep of seps: n separators give n+1 segments
RECURSIVE SplitOn(_, _)
SplitOn(s, seps) ==
    IF s = <<>> THEN << <<>> >>
    ELSE LET rest == SplitOn(Tail(s), seps)
         IN  IF Head(s) \in seps
             THEN << <<>> >> \o rest
             ELSE << <<Head(s)>> \o Head(rest) >> \o Tail(rest)

\* sep.join(segs)
RECURSIVE JoinSegs(_)
JoinSegs(segs) ==
    IF segs = <<>> THEN <<>>
    ELSE IF Len(segs) = 1 THEN segs[1]
    ELSE segs[1] \o <<Sep>> \o JoinSegs(Tail(segs))

IsPrefix(p, q) == Len(p) <= Len(q) /\ SubSeq(q, 1, Len(p)) = p

\* os.path.normpath on the segments of an absolute path: empty segments are
\* dropped, ".." takes the last segment away and stays at the root
RECURSIVE NormSegs(_, _)
NormSegs(base, segs) ==
    IF segs = <<>> THEN base
    ELSE LET s == Head(segs)
         IN  IF s = <<>> THEN NormSegs(base, Tail(segs))
             ELSE IF s = <<DotDot>>
             THEN NormSegs(IF base = <<>> THEN <<>>
                           ELSE SubSeq(base, 1, Len(base) - 1), Tail(segs))
             ELSE NormSegs(Append(base, s), Tail(segs))

\* whether the string s is absolute or rooted on the platform (a drive-relative
\* "C:x" is not); and s without its drive
StripDrive(plat, s) ==
    IF plat = "nt" /\ s # <<>> /\ IsDriveTok(s[1]) THEN Tail(s) ELSE s

IsRooted(plat, s) ==
    LET r == StripDrive(plat, s) IN r # <<>> /\ r[1] \in Seps(plat)

\* os.path.abspath(s): the normalised absolute segment list (one drive)
abspath(plat, wd, s) ==
    LET segs == SplitOn(StripDrive(plat, s), Seps(plat))
    IN  NormSegs(IF IsRooted(plat, s) THEN <<>> ELSE wd, segs)

\* posixpath.normpath keeps exactly two leading slashes (POSIX leaves "//"
\* to the implementation)
DoubleSlash(plat, s) ==
    /\ plat = "posix"
    /\ Len(s) >= 2 /\ s[1] = Sep /\ s[2] = Sep
    /\ (Len(s) = 2 \/ s[3] # Sep)

\* os.path.normcase on a segment list: lower case on nt, identity on posix
normcase(plat, segs) ==
    IF plat = "nt"
    THEN [i \in 1..Len(segs) |-> [j \in 1..Len(segs[i]) |-> Lower(segs[i][j])]]
    ELSE segs

\* os.path.commonpath of two absolute segment lists: the longest common prefix
RECURSIVE commonpath(_, _)
commonpath(p, q) ==
    IF p = <<>> \/ q = <<>> \/ Head(p) # Head(q) THEN <<>>
    ELSE <<Head(p)>> \o commonpath(Tail(p), Tail(q))

-----------------------------------------------------------------------------
(* PathSafety *)

\* the guard without its containment test (lines 129-136 left out)
IsSafeNoDotDot(plat, wd, target_dir, member_name) ==
    /\ member_name # <<>>
    /\ LET normalized == ReplaceBackslash(member_name)
       IN  /\ normalized[1] # Sep
           /\ ~IsDriveTok(normalized[1])

\* _is_safe_zip_member(target_dir, member_name); target_dir is given as the
\* string the Path was built from
_is_safe_zip_member(plat, wd, target_dir, member_name) ==
    IF member_name = <<>> THEN FALSE
    ELSE LET normalized == ReplaceBackslash(member_name)
         IN  IF normalized[1] = Sep \/ normalized[1] = Bsl THEN FALSE
             ELSE IF IsDriveTok(normalized[1]) THEN FALSE
             ELSE LET target_abs == normcase(plat, abspath(plat, wd, target_dir))
                      member_abs == normcase(plat,
                          NormSegs(target_abs, SplitOn(normalized, Seps(plat))))
                      common == commonpath(target_abs, member_abs)
                  IN  \* commonpath answers with one leading slash, abspath keeps two
                      common = target_abs /\ ~DoubleSlash(plat, target_dir)

\* pathlib.Path(s): drive, root and the parts below the anchor (".." is kept)
PathOf(plat, s) ==
    LET r == StripDrive(plat, s)
        segs == SplitOn(r, Seps(plat))
    IN  [drv |-> IF r # s THEN <<DriveTok>> ELSE <<>>,
         root |-> IsRooted(plat, s),
         parts |-> SelectSeq(segs, LAMBDA g : g # <<>>)]

\* Path.resolve(): absolute, ".." folded (the model has no symbolic links)
resolve(plat, wd, p) ==
    [drv |-> IF plat = "nt" THEN <<DriveTok>> ELSE <<>>,
     root |-> TRUE,
     parts |-> NormSegs(IF p.root THEN <<>> ELSE wd, p.parts)]

\* Path.anchor and str(Path)
Anchor(plat, p) ==
    p.drv \o (IF p.root THEN <<(IF plat = "nt" THEN Bsl ELSE Sep)>> ELSE <<>>)

StrOf(plat, p) == Anchor(plat, p) \o JoinSegs(p.parts)

\* len(Path.parts): the anchor, when there is one, is a part
NParts(plat, p) == (IF Anchor(plat, p) # <<>> THEN 1 ELSE 0) + Len(p.parts)

\* a guard that refuses nothing, and one that looks at the spelling only
IsDriveRootNever(plat, wd, target_dir, resolveFails) == FALSE

IsDriveRootUnresolved(plat, wd, target_dir, resolveFails) ==
    LET p == PathOf(plat, target_dir)
    IN  (Anchor(plat, p) # <<>> /\ p.parts = <<>>) \/ NParts(plat, p) <= 1

\* _is_drive_root(target_dir); resolveFails: target_dir.resolve() raised
_is_drive_root(plat, wd, target_dir, resolveFails) ==
    LET resolved_target == IF resolveFails THEN PathOf(plat, target_dir)
                           ELSE resolve(plat, wd, PathOf(plat, target_dir))
        anchor == Anchor(plat, resolved_target)
    IN  IF anchor # <<>>
           /\ RStrip(StrOf(plat, resolved_target)) = RStrip(anchor)
        THEN TRUE
        ELSE resolved_target.parts = <<>> \/ NParts(plat, resolved_target) <= 1

-----------------------------------------------------------------------------
(* The file system.  A path is an absolute list of segments; the root     *)
(* <<>> is always a directory.  The operating system folds ".." as it     *)
(* walks a path (there are no symbolic links in the model).               *)

Prefixes(p) == {SubSeq(p, 1, k) : k \in 0..Len(p)}

Exists(f, p) == p \in f.dirs \/ p \in DOMAIN f.files

IsDir(f, p) == p \in f.dirs

Under(p, q) == IsPrefix(p, q)

FilesUnder(f, p) == {q \in DOMAIN f.files : Under(p, q)}

\* the names of Path.iterdir(): the last segment of every direct child
IterDir(f, p) ==
    {q[Len(q)] : q \in {r \in f.dirs \cup DOMAIN f.files :
                            Len(r) = Len(p) + 1 /\ Under(p, r)}}

\* Path.mkdir(parents=True, exist_ok=True) along base/segs: every directory
\* on the way is made, also one that a later ".." leaves again
RECURSIVE MkdirChain(_, _, _)
MkdirChain(f, base, segs) ==
    IF segs = <<>> THEN f
    ELSE LET g == Head(segs)
         IN  IF g = <<>> THEN MkdirChain(f, base, Tail(segs))
             ELSE IF g = <<DotDot>>
             THEN MkdirChain(f, IF base = <<>> THEN <<>>
                                ELSE SubSeq(base, 1, Len(base) - 1), Tail(segs))
             ELSE MkdirChain([f EXCEPT !.dirs = @ \cup {Append(base, g)}],
                             Append(base, g), Tail(segs))

\* mkdir raises when a name on the way is a file
RECURSIVE CanMkdirChain(_, _, _)
CanMkdirChain(f, base, segs) ==
    IF segs = <<>> THEN TRUE
    ELSE LET g == Head(segs)
         IN  IF g = <<>> THEN CanMkdirChain(f, base, Tail(segs))
             ELSE IF g = <<DotDot>>
             THEN CanMkdirChain(f, IF base = <<>> THEN <<>>
                                   ELSE SubSeq(base, 1, Len(base) - 1), Tail(segs))
             ELSE /\ Append(base, g) \notin DOMAIN f.files
                  /\ CanMkdirChain(f, Append(base, g), Tail(segs))

\* shutil.rmtree(p) that ran to its end
RmTree(f, p) ==
    [files |-> [q \in {r \in DOMAIN f.files : ~Under(p, r)} |-> f.files[q]],
     dirs  |-> {r \in f.dirs : ~Under(p, r)}]

\* shutil.rmtree(p) that raised on the way: the files of kept are still there
RmTreePartly(f, p, kept) ==
    [files |-> [q \in {r \in DOMAIN f.files : ~Under(p, r) \/ r \in kept}
                  |-> f.files[q]],
     dirs  |-> f.dirs]

\* open(p, "wb") and the copy of the member's bytes
WriteFile(f, p, data) ==
    [f EXCEPT !.files = [q \in DOMAIN f.files \cup {p} |->
                            IF q = p THEN data ELSE f.files[q]]]

\* os.path.getsize / ZipInfo.file_size of a content
Size(data) ==
    CASE data = "x" -> 1
      [] data = "yy" -> 2
      [] data = "old" -> 3
      [] OTHER -> 0

\* the sizes of the files of S added up
RECURSIVE SizeOfFiles(_, _)
SizeOfFiles(f, S) ==
    IF S = {} THEN 0
    ELSE LET q == CHOOSE x \in S : TRUE
         IN  Size(f.files[q]) + SizeOfFiles(f, S \ {q})

-----------------------------------------------------------------------------
(* The archive: [exists, ext, state, members].  state is "ok", "badzip"    *)
(* (zipfile raises BadZipFile) or "unreadable" (any other error on open).  *)
(* A member is [name, data]; member names are not empty.                   *)

UserdataSeg == <<"userdata">>
AddonsSeg == <<"addons">>

\* ZipFile.infolist(): on nt ZipInfo turns os.sep into "/" as it reads a name
infolist(plat, z) ==
    [i \in 1..Len(z.members) |->
        [filename |-> IF plat = "nt" THEN ReplaceBackslash(z.members[i].name)
                      ELSE z.members[i].name,
         data |-> z.members[i].data]]

\* ZipFile.namelist()
namelist(plat, z) ==
    [i \in 1..Len(z.members) |-> infolist(plat, z)[i].filename]

\* ZipInfo.is_dir(): the name ends with "/"
is_dir(filename) == filename # <<>> /\ filename[Len(filename)] = Sep

\* f.split('/', 1)[0]
FirstSegment(f) == SplitOn(f, {Sep})[1]

\* f.startswith(seg + "/")
StartsWithDir(f, seg) ==
    Len(f) > Len(seg) /\ SubSeq(f, 1, Len(seg)) = seg /\ f[Len(seg) + 1] = Sep

\* sum(1 for f in names if f.startswith(seg + "/") and not f.endswith("/"))
CountUnder(names, seg) ==
    Cardinality({i \in 1..Len(names) :
                    StartsWithDir(names[i], seg) /\ ~is_dir(names[i])})

\* sum(info.file_size for info in infos if not info.is_dir())
RECURSIVE TotalSize(_)
TotalSize(infos) ==
    IF infos = <<>> THEN 0
    ELSE (IF is_dir(Head(infos).filename) THEN 0 ELSE Size(Head(infos).data))
         + TotalSize(Tail(infos))

ValidationFailed(msg, logged) ==
    [valid |-> FALSE, error_message |-> msg, userdata_files |-> 0,
     addons_files |-> 0, total_size |-> 0, error_logged |-> logged]

\* a validator that looks at the extension before it looks for the file
ValidateExtensionFirst(plat, z) ==
    IF Lower(z.ext) # "zip"
    THEN ValidationFailed("Backup file must be a ZIP archive", FALSE)
    ELSE IF ~z.exists THEN ValidationFailed("Backup file not found", FALSE)
    ELSE IF z.state = "badzip"
    THEN ValidationFailed("File is not a valid ZIP archive", FALSE)
    ELSE IF z.state # "ok"
    THEN ValidationFailed("Error validating backup file", FALSE)
    ELSE LET names == [i \in 1..Len(z.members) |->
                          ReplaceBackslash(z.members[i].name)]
         IN  IF \/ \A i \in 1..Len(names) : FirstSegment(names[i]) # UserdataSeg
                \/ \A i \in 1..Len(names) : FirstSegment(names[i]) # AddonsSeg
             THEN ValidationFailed(
                 "Backup file does not contain required directories", TRUE)
             ELSE [valid |-> TRUE, error_message |-> "",
                   userdata_files |-> CountUnder(names, UserdataSeg),
                   addons_files |-> CountUnder(names, AddonsSeg),
                   total_size |-> TotalSize(infolist(plat, z)),
                   error_logged |-> FALSE]

\* validate_backup_file(backup_file_path)
validate_backup_file(plat, z) ==
    IF ~z.exists THEN ValidationFailed("Backup file not found", FALSE)
    ELSE IF Lower(z.ext) # "zip"
    THEN ValidationFailed("Backup file must be a ZIP archive", FALSE)
    ELSE IF z.state = "badzip"
    THEN ValidationFailed("File is not a valid ZIP archive", FALSE)
    ELSE IF z.state # "ok"
    THEN ValidationFailed("Error validating backup file", FALSE)
    ELSE LET file_list == namelist(plat, z)
             normalized_list == [i \in 1..Len(file_list) |->
                                    ReplaceBackslash(file_list[i])]
             has_userdata == \E i \in 1..Len(normalized_list) :
                                FirstSegment(normalized_list[i]) = UserdataSeg
             has_addons == \E i \in 1..Len(normalized_list) :
                                FirstSegment(normalized_list[i]) = AddonsSeg
         IN  IF ~has_userdata \/ ~has_addons
             THEN ValidationFailed(
                 "Backup file does not contain required directories", TRUE)
             ELSE [valid |-> TRUE, error_message |-> "",
                   userdata_files |-> CountUnder(normalized_list, UserdataSeg),
                   addons_files |-> CountUnder(normalized_list, AddonsSeg),
                   total_size |-> TotalSize(infolist(plat, z)),
                   error_logged |-> FALSE]

-----------------------------------------------------------------------------
(* SafeExtractor *)

NonEmpty(segs) == SelectSeq(segs, LAMBDA g : g # <<>>)

\* the parts ZipFile.extract keeps of a member name: it drops the empty
\* segments and every ".." before it joins the rest to the target
ExtractParts(filename) ==
    SelectSeq(SplitOn(filename, {Sep}), LAMBDA g : g # <<>> /\ g # <<DotDot>>)

\* where one member is written: ZipFile.extract for a name that needed no
\* normalising, else target_dir / name, in which the system folds ".."
DestPath(plat, wd, target, filename) ==
    LET name == ReplaceBackslash(filename)
        target_abs == abspath(plat, wd, target)
    IN  IF name # filename
        THEN NormSegs(target_abs, SplitOn(name, {Sep}))
        ELSE target_abs \o ExtractParts(filename)

\* the directories made on the way to it
DestParents(plat, wd, target, filename) ==
    LET name == ReplaceBackslash(filename)
        target_abs == abspath(plat, wd, target)
        parts == IF name # filename THEN NonEmpty(SplitOn(name, {Sep}))
                 ELSE ExtractParts(filename)
    IN  target_abs \o (IF parts = <<>> THEN <<>>
                       ELSE SubSeq(parts, 1, Len(parts) - 1))

\* the loop of extract_backup_with_progress from member i on.  st is
\* [fs, written, skipped, extracted, failed]; failset: the members whose
\* write raises; failed: the members the handler of lines 624-627 counted
RECURSIVE ExtractLoop(_, _, _, _, _, _, _)
ExtractLoop(plat, wd, infos, i, target, failset, st) ==
    IF i > Len(infos) THEN [ok |-> TRUE, unsafe |-> 0] @@ st
    ELSE LET file_info == infos[i]
             name == ReplaceBackslash(file_info.filename)
         IN  IF is_dir(file_info.filename)
             THEN ExtractLoop(plat, wd, infos, i + 1, target, failset, st)
             ELSE IF ~_is_safe_zip_member(plat, wd, target, name)
             THEN [ok |-> FALSE, unsafe |-> i] @@ st
             ELSE LET dest == DestPath(plat, wd, target, file_info.filename)
                      ups == DestParents(plat, wd, target, file_info.filename)
                      raises == \/ i \in failset
                                \/ ~CanMkdirChain(st.fs, <<>>, ups)
                                \/ dest \in st.fs.dirs
                                \/ dest \in Prefixes(ups)
                      made == MkdirChain(st.fs, <<>>, ups)
                  IN  IF raises
                      THEN ExtractLoop(plat, wd, infos, i + 1, target, failset,
                               [st EXCEPT !.skipped = @ + 1,
                                          !.failed = @ \cup {i}])
                      ELSE ExtractLoop(plat, wd, infos, i + 1, target, failset,
                               [st EXCEPT
                                   !.fs = WriteFile(made, dest, file_info.data),
                                   !.written = @ \cup {dest},
                                   !.extracted = @ + 1])

\* an extraction that skips an unsafe member and goes on
ExtractSkipsUnsafe(plat, wd, f, z, target, openFails, failset) ==
    LET st0 == [fs |-> f, written |-> {}, skipped |-> 0, extracted |-> 0,
                  failed |-> {}]
        infos == infolist(plat, z)
        safe == SelectSeq(infos, LAMBDA m :
                   _is_safe_zip_member(plat, wd, target,
                                       ReplaceBackslash(m.filename)))
    IN  IF openFails \/ ~z.exists \/ z.state # "ok"
        THEN [ok |-> FALSE, unsafe |-> 0] @@ st0
        ELSE ExtractLoop(plat, wd, safe, 1, target, {}, st0)

\* an extraction that gives up when a member could not be written
ExtractFailsOnSkipped(plat, wd, f, z, target, openFails, failset) ==
    LET st0 == [fs |-> f, written |-> {}, skipped |-> 0, extracted |-> 0,
                  failed |-> {}]
        r == ExtractLoop(plat, wd, infolist(plat, z), 1, target, failset, st0)
    IN  IF openFails \/ ~z.exists \/ z.state # "ok"
        THEN [ok |-> FALSE, unsafe |-> 0] @@ st0
        ELSE IF r.skipped > 0 THEN [r EXCEPT !.ok = FALSE] ELSE r

\* extract_backup_with_progress(backup_file_path, target_directory);
\* openFails: zipfile.ZipFile(backup_file, 'r') raised
extract_backup_with_progress(plat, wd, f, z, target, openFails, failset) ==
    LET st0 == [fs |-> f, written |-> {}, skipped |-> 0, extracted |-> 0,
                  failed |-> {}]
    IN  IF openFails \/ ~z.exists \/ z.state # "ok"
        THEN [ok |-> FALSE, unsafe |-> 0] @@ st0
        ELSE ExtractLoop(plat, wd, infolist(plat, z), 1, target, failset, st0)

-----------------------------------------------------------------------------
(* clear_kodi_directories(target_directory).  fault is [at, kept]: the    *)
(* rmtree that raises ("none", "userdata" or "addons") and the files it    *)
(* had not yet removed when it raised.                                     *)

ClearOne(f, p, raises, kept) ==
    IF ~Exists(f, p) THEN [ok |-> TRUE, fs |-> f]
    ELSE IF ~IsDir(f, p) THEN [ok |-> FALSE, fs |-> f]
    ELSE IF raises
    THEN [ok |-> FALSE, fs |-> RmTreePartly(f, p, kept \cap FilesUnder(f, p))]
    ELSE [ok |-> TRUE, fs |-> RmTree(f, p)]

\* a clearing that forgets addons
ClearOnlyUserdata(plat, wd, f, target, fault) ==
    LET target_abs == abspath(plat, wd, target)
    IN  ClearOne(f, Append(target_abs, UserdataSeg), fault.at = "userdata",
                 fault.kept)

clear_kodi_directories(plat, wd, f, target, fault) ==
    LET target_abs == abspath(plat, wd, target)
        userdata_path == Append(target_abs, UserdataSeg)
        addons_path == Append(target_abs, AddonsSeg)
        first == ClearOne(f, userdata_path, fault.at = "userdata", fault.kept)
    IN  IF ~first.ok THEN first
        ELSE ClearOne(first.fs, addons_path, fault.at = "addons", fault.kept)

-----------------------------------------------------------------------------
(* RestoreOrchestrator: perform_restore(backup_file_path, target_directory) *)
(* as the steps of its body.  pc names the step that runs next; every step  *)
(* that runs is appended to hist.steps with its outcome.                    *)

EmptyFs == [files |-> <<>>, dirs |-> {<<>>}]

RestoreResults ==
    [success |-> FALSE, userdata_files |-> 0, addons_files |-> 0,
     total_size |-> 0, error_message |-> "", error_logged |-> FALSE]

\* a body that goes on to the root check whatever the validator answered
AfterStepIgnoresValidator(step, ok) ==
    CASE step = "validate" -> "root"
      [] ~ok -> "done"
      [] step = "root" -> "mkdir"
      [] step = "mkdir" -> "content"
      [] step = "content" -> "prescan"
      [] step = "prescan" -> "clear"
      [] step = "clear" -> "extract"
      [] OTHER -> "done"

\* a body in which a failed pre-scan, clearing or extraction does not return
AfterStepGoesOn(step, ok) ==
    CASE step = "validate" -> IF ok THEN "root" ELSE "done"
      [] step = "root" -> IF ok THEN "mkdir" ELSE "done"
      [] step = "mkdir" -> IF ok THEN "content" ELSE "done"
      [] step = "content" -> IF ok THEN "prescan" ELSE "done"
      [] step = "prescan" -> "clear"
      [] step = "clear" -> "extract"
      [] OTHER -> "done"

\* the statement that follows a step: a failed check returns the results
AfterStep(step, ok) ==
    IF ~ok THEN "done"
    ELSE CASE step = "validate" -> "root"
           [] step = "root" -> "mkdir"
           [] step = "mkdir" -> "content"
           [] step = "content" -> "prescan"
           [] step = "prescan" -> "clear"
           [] step = "clear" -> "extract"
           [] OTHER -> "done"

\* fault: the environment made a call of this step raise
Record(step, ok, fault) ==
    [hist EXCEPT !.steps = Append(@, [step |-> step, ok |-> ok, fault |-> fault]),
                 !.faults = @ \/ fault]

Fail(msg, logged) ==
    [res EXCEPT !.error_message = msg, !.error_logged = logged]

\* The progress sink.  Every message of the engine goes to the callback its
\* caller handed over (_update_progress, lines 32-34).  A run either has a
\* sink that takes every message, or one that raises at every call; arg.sink
\* says which, and a run without the field has a working sink.
SinkRaises == "sink" \in DOMAIN arg /\ arg.sink = "raises"

\* the results after a step that told the sink something: when the sink
\* raises, the handler of lines 747-749 sets its message and tells the sink
\* again, and that second exception leaves perform_restore
ToldSink(r) ==
    IF SinkRaises
    THEN [r EXCEPT !.error_message = "Unexpected error during restore"]
    ELSE r

AfterTelling(next) == IF SinkRaises THEN "raised" ELSE next

\* validate_backup_file with the sink of the run.  It tells the sink that
\* the directories are missing (line 513) before it sets error_logged, and
\* what it counted (lines 525-527) after it has set valid; an exception of
\* the sink lands in the handler of lines 531-532, which sets the message
\* and leaves the other fields as they are
ValidateUnderSink(plat, z) ==
    LET v == validate_backup_file(plat, z)
    IN  IF ~SinkRaises THEN v
        ELSE IF v.valid
        THEN [v EXCEPT !.error_message = "Error validating backup file"]
        ELSE IF v.error_logged
        THEN ValidationFailed("Error validating backup file", FALSE)
        ELSE v

TargetAbs == abspath(platform, cwd, arg.target)

\* Step 1: validate the backup file
ValidateArchive ==
    /\ pc = "validate"
    /\ LET validation == ValidateUnderSink(platform, zip)
       IN  /\ res' = IF ~validation.valid
                     THEN Fail(validation.error_message, validation.error_logged)
                     ELSE [res EXCEPT
                              !.userdata_files = validation.userdata_files,
                              !.addons_files = validation.addons_files,
                              !.total_size = validation.total_size]
           /\ pc' = AfterStep("validate", validation.valid)
           /\ hist' = Record("validate", validation.valid, FALSE)
    /\ UNCHANGED <<platform, cwd, pf, fs, zip, arg, loc>>

\* Step 2: refuse a drive root.  When resolve() raises (a symbolic link
\* loop) the path cannot be walked by the calls that follow either.
ConfirmNotRoot ==
    /\ pc = "root"
    /\ \E resolveFails \in BOOLEAN :
          LET root == _is_drive_root(platform, cwd, arg.target, resolveFails)
          IN  /\ res' = IF root
                        THEN ToldSink(Fail("Refusing restore to drive root", TRUE))
                        ELSE res
              /\ loc' = [loc EXCEPT !.unwalkable = resolveFails]
              /\ pc' = IF root THEN AfterTelling(AfterStep("root", ~root))
                        ELSE AfterStep("root", ~root)
              /\ hist' = Record("root", ~root, resolveFails)
    /\ UNCHANGED <<platform, cwd, pf, fs, zip, arg>>

\* if not target_dir.exists(): target_dir.mkdir(parents=True, exist_ok=True)
EnsureTarget ==
    /\ pc = "mkdir"
    /\ IF ~loc.unwalkable /\ Exists(fs, TargetAbs)
       THEN /\ pc' = "content"
            /\ UNCHANGED <<fs, res, hist>>
       ELSE \E mkdirRaises \in BOOLEAN :
               LET raises == \/ mkdirRaises
                             \/ loc.unwalkable
                             \/ ~CanMkdirChain(fs, <<>>, TargetAbs)
               IN  /\ fs' = IF raises THEN fs ELSE MkdirChain(fs, <<>>, TargetAbs)
                   /\ res' = ToldSink(IF raises
                                       THEN Fail("Unexpected error during restore", FALSE)
                                       ELSE res)
                   /\ pc' = AfterTelling(AfterStep("mkdir", ~raises))
                   /\ hist' = Record("mkdir", ~raises, mkdirRaises)
    /\ UNCHANGED <<platform, cwd, pf, zip, arg, loc>>

allowed_names == {<<".ds_store">>, <<"thumbs.db">>, <<"desktop.ini">>}

LowerSeg(g) == [j \in 1..Len(g) |-> Lower(g[j])]

\* the test without lower()
HasForeignEntryExact(entries) == \E e \in entries : e \notin allowed_names

\* any(entry.name.lower() not in allowed_names for entry in entries)
HasForeignEntry(entries) == \E e \in entries : LowerSeg(e) \notin allowed_names

\* has_userdata, has_addons and the check of a target that is no Kodi folder
CheckTargetContents ==
    /\ pc = "content"
    /\ LET has_userdata == IsDir(fs, Append(TargetAbs, UserdataSeg))
           has_addons == IsDir(fs, Append(TargetAbs, AddonsSeg))
       IN  /\ loc' = [loc EXCEPT !.has_userdata = has_userdata,
                                 !.has_addons = has_addons]
           /\ IF has_userdata /\ has_addons
              THEN /\ res' = res
                   /\ pc' = AfterStep("content", TRUE)
                   /\ hist' = Record("content", TRUE, FALSE)
              ELSE \E iterdirRaises \in BOOLEAN :
                      LET unreadable == iterdirRaises \/ ~IsDir(fs, TargetAbs)
                          foreign == HasForeignEntry(IterDir(fs, TargetAbs))
                      IN  /\ res' = IF unreadable
                                    THEN ToldSink(Fail("Unable to read restore target", TRUE))
                                    ELSE IF foreign
                                    THEN ToldSink(Fail("Restore target is not a Kodi folder and is not empty", TRUE))
                                    ELSE res
                          /\ pc' = IF unreadable \/ foreign
                                    THEN AfterTelling(AfterStep("content", FALSE))
                                    ELSE AfterStep("content", TRUE)
                          /\ hist' = Record("content", ~unreadable /\ ~foreign, iterdirRaises)
    /\ UNCHANGED <<platform, cwd, pf, fs, zip, arg>>

\* a restore without Step 3
PreScanSkipped(plat, wd, z, target) == {}

\* Step 3: the members of zipf.namelist() that fail _is_safe_zip_member
PreScanUnsafe(plat, wd, z, target) ==
    {i \in 1..Len(z.members) :
        ~_is_safe_zip_member(plat, wd, target, namelist(plat, z)[i])}

PreScan ==
    /\ pc = "prescan"
    /\ \E openRaises \in BOOLEAN :
          LET unsafe == PreScanUnsafe(platform, cwd, zip, arg.target)
              ok == ~openRaises /\ unsafe = {}
          IN  /\ res' = IF openRaises
                        THEN ToldSink(Fail("Error validating backup file entries", TRUE))
                        ELSE IF unsafe # {}
                        THEN ToldSink(Fail("Unsafe zip entry detected (path traversal)", TRUE))
                        ELSE res
              /\ pc' = IF ok THEN AfterStep("prescan", ok)
                        ELSE AfterTelling(AfterStep("prescan", ok))
              /\ hist' = Record("prescan", ok, openRaises)
    /\ UNCHANGED <<platform, cwd, pf, fs, zip, arg, loc>>

ClearFaults ==
    {[at |-> a, kept |-> k] :
        a \in {"none", "userdata", "addons"},
        k \in SUBSET FilesUnder(fs, TargetAbs)}

\* whether Step 4 clears: only a target that held both directories
ClearApplies(l) == l.has_userdata /\ l.has_addons

\* Step 4: clear the existing directories of a Kodi folder.  The step
\* begins by telling the sink (lines 723-724)
ClearExistingIfPresent ==
    /\ pc = "clear"
    /\ IF SinkRaises
       THEN /\ pc' = "raised"
            /\ res' = ToldSink(res)
            /\ UNCHANGED <<fs, hist>>
       ELSE IF ~ClearApplies(loc)
       THEN /\ pc' = "extract"
            /\ UNCHANGED <<fs, res, hist>>
       ELSE \E fault \in ClearFaults :
               LET r == clear_kodi_directories(platform, cwd, fs, arg.target, fault)
               IN  /\ fs' = r.fs
                   /\ res' = IF r.ok THEN res
                             ELSE Fail("Failed to clear existing directories", TRUE)
                   /\ pc' = AfterStep("clear", r.ok)
                   /\ hist' = Record("clear", r.ok, fault.at # "none")
    /\ UNCHANGED <<platform, cwd, pf, zip, arg, loc>>

\* Steps 5 and 6: extract the backup and report success
Extract ==
    /\ pc = "extract"
    /\ \E openRaises \in BOOLEAN, failset \in SUBSET (1..Len(zip.members)) :
          LET r == extract_backup_with_progress(platform, cwd, fs, zip,
                                                arg.target, openRaises, failset)
          IN  /\ fs' = r.fs
              /\ res' = IF r.ok THEN [res EXCEPT !.success = TRUE]
                        ELSE Fail("Failed to extract backup archive", TRUE)
              /\ pc' = AfterStep("extract", r.ok)
              /\ hist' = [Record("extract", r.ok, openRaises \/ failset # {}) EXCEPT
                             !.written = r.written, !.skipped = r.skipped,
                             !.unsafe = r.unsafe]
    /\ UNCHANGED <<platform, cwd, pf, zip, arg, loc>>

-----------------------------------------------------------------------------
(* The inputs of the restore runs *)

MaxMembers == 3

\* a path given by its plain segment names
Pth(names) == [i \in 1..Len(names) |-> <<names[i]>>]

\* a file system holding the files of fm (path -> content) and the
\* directories of extra, with every directory above them
MkFs(fm, extra) ==
    [files |-> fm,
     dirs |-> {<<>>} \cup UNION {Prefixes(d) : d \in extra}
              \cup UNION {Prefixes(q) \ {q} : q \in DOMAIN fm}]

Member(name, data) == [name |-> name, data |-> data]

\* "userdata/a", "addons/b", "userdata/../../e", "addons\..\..\e", "x.txt"
\* and the directory entry "addons/"
MemberUniverse ==
    { Member(<<"userdata", Sep, "a">>, "x"),
      Member(<<"addons", Sep, "b">>, "yy"),
      Member(<<"userdata", Sep, DotDot, Sep, DotDot, Sep, "e">>, "x"),
      Member(<<"addons", Bsl, DotDot, Bsl, DotDot, Bsl, "e">>, "yy"),
      Member(<<"x.txt">>, "x"),
      Member(<<"addons", Sep>>, "") }

Range(q) == {q[i] : i \in 1..Len(q)}

\* the member lists of at most n distinct members
RECURSIVE MemberSeqs(_)
MemberSeqs(n) ==
    IF n = 0 THEN {<<>>}
    ELSE LET shorter == MemberSeqs(n - 1)
         IN  shorter \cup {Append(q, m) :
                              q \in {r \in shorter : Len(r) = n - 1},
                              m \in MemberUniverse}

ArchiveSeqs == {q \in MemberSeqs(MaxMembers) : Cardinality(Range(q)) = Len(q)}

Container(ex, ext, st, ms) ==
    [exists |-> ex, ext |-> ext, state |-> st, members |-> ms]

TwoMembers ==
    << Member(<<"userdata", Sep, "a">>, "x"), Member(<<"addons", Sep, "b">>, "yy") >>

RestoreArchives ==
    {Container(TRUE, "zip", "ok", ms) : ms \in ArchiveSeqs}
    \cup { Container(FALSE, "zip", "ok", TwoMembers),
           Container(TRUE, "bak", "ok", TwoMembers),
           Container(TRUE, "ZIP", "ok", TwoMembers),
           Container(TRUE, "zip", "badzip", TwoMembers),
           Container(TRUE, "zip", "unreadable", TwoMembers) }

OldTree ==
    Pth(<<"t", "userdata", "old">>) :> "old" @@ Pth(<<"t", "addons", "old">>) :> "old"

\* the target /t: missing, empty, holding an allow-listed or a foreign file,
\* half a Kodi folder, a Kodi folder; and a root that is a Kodi folder
RestoreFileSystems ==
    { MkFs(<<>>, {}),
      MkFs(<<>>, {Pth(<<"t">>)}),
      MkFs(Pth(<<"t", "Desktop.ini">>) :> "old", {}),
      MkFs(Pth(<<"t", "notes.txt">>) :> "old", {}),
      MkFs(Pth(<<"t", "userdata", "old">>) :> "old", {}),
      MkFs(OldTree @@ Pth(<<"e">>) :> "old", {}),
      MkFs(OldTree @@ Pth(<<"t", "userdata", "a">>) :> "old"
                   @@ Pth(<<"t", "notes.txt">>) :> "old", {}),
      MkFs(Pth(<<"userdata", "old">>) :> "old" @@ Pth(<<"addons", "old">>) :> "old",
           {Pth(<<"t">>)}) }

\* "/t", "/", "/t/..", "t", "/n"; on nt "C:\t", "C:\", "\t\..", "t", "/n"
RestoreTargets(plat) ==
    IF plat = "nt"
    THEN { <<DriveTok, Bsl, "t">>, <<DriveTok, Bsl>>, <<Bsl, "t", Bsl, DotDot>>,
           <<"t">>, <<Sep, "n">> }
    ELSE { <<Sep, "t">>, <<Sep>>, <<Sep, "t", Sep, DotDot>>, <<"t">>, <<Sep, "n">> }

NoPf == [fn |-> "none"]

NoLoc == [has_userdata |-> FALSE, has_addons |-> FALSE, unwalkable |-> FALSE]

NewHist(f) ==
    [steps |-> <<>>, fs0 |-> f, written |-> {}, skipped |-> 0, unsafe |-> 0,
     faults |-> FALSE]

Init ==
    /\ platform \in Platforms
    /\ cwd = <<>>
    /\ pf = NoPf
    /\ fs \in RestoreFileSystems
    /\ zip \in RestoreArchives
    /\ arg \in {[target |-> t] : t \in RestoreTargets(platform)}
    /\ pc = "validate"
    /\ loc = NoLoc
    /\ res = RestoreResults
    /\ hist = NewHist(fs)

Next ==
    \/ ValidateArchive
    \/ ConfirmNotRoot
    \/ EnsureTarget
    \/ CheckTargetContents
    \/ PreScan
    \/ ClearExistingIfPresent
    \/ Extract

Spec == Init /\ [][Next]_vars

-----------------------------------------------------------------------------
(* extract_backup_with_progress called on its own, as the engine's API      *)
(* allows: no validation and no pre-scan went before.                       *)

ExtractTargets(plat) ==
    IF plat = "nt" THEN { <<DriveTok, Bsl, "t">>, <<DriveTok, Bsl>> }
    ELSE { <<Sep, "t">>, <<Sep>> }

ExtractFileSystems ==
    { MkFs(<<>>, {}),
      MkFs(<<>>, {Pth(<<"t">>)}),
      MkFs(OldTree @@ Pth(<<"e">>) :> "old", {}) }

ExtractArchives ==
    {Container(TRUE, "zip", "ok", ms) : ms \in ArchiveSeqs}
    \cup {Container(TRUE, "zip", "badzip", TwoMembers)}

InitExtract ==
    /\ platform \in Platforms
    /\ cwd = <<>>
    /\ pf = NoPf
    /\ fs \in ExtractFileSystems
    /\ zip \in ExtractArchives
    /\ arg \in {[target |-> t] : t \in ExtractTargets(platform)}
    /\ pc = "extract_call"
    /\ loc = NoLoc
    /\ res = RestoreResults
    /\ hist = NewHist(fs)

ExtractCall ==
    /\ pc = "extract_call"
    /\ \E openRaises \in BOOLEAN, failset \in SUBSET (1..Len(zip.members)) :
          LET r == extract_backup_with_progress(platform, cwd, fs, zip,
                                                arg.target, openRaises, failset)
          IN  /\ fs' = r.fs
              /\ pf' = [fn |-> "extract_backup_with_progress", result |-> r.ok,
                      opened |-> ~openRaises, failset |-> failset,
                      failed |-> r.failed]
              /\ hist' = [Record("extract", r.ok, openRaises \/ failset # {}) EXCEPT
                             !.written = r.written, !.skipped = r.skipped,
                             !.unsafe = r.unsafe]
    /\ pc' = "done"
    /\ UNCHANGED <<platform, cwd, zip, arg, loc, res>>

NextExtract == ExtractCall

SpecExtract == InitExtract /\ [][NextExtract]_vars

-----------------------------------------------------------------------------
(* The two guards of PathSafety called on their own, over targets and       *)
(* member names spelled from a small alphabet.                              *)

MaxTargetLen == 2
MaxNameLen == 2

PathTokens == {Sep, Bsl, DriveTok, DotDot, "t"}

RECURSIVE Strings(_, _)
Strings(toks, n) ==
    IF n = 0 THEN {<<>>}
    ELSE LET shorter == Strings(toks, n - 1)
         IN  shorter \cup {Append(q, t) : q \in shorter, t \in toks}

\* on nt a path that begins with two separators names a network share,
\* which none of the runs uses
IsShare(plat, s) ==
    plat = "nt" /\ Len(s) >= 2 /\ s[1] \in {Sep, Bsl} /\ s[2] \in {Sep, Bsl}

RootTargets(plat) ==
    {s \in Strings(PathTokens, MaxTargetLen) : ~IsShare(plat, s)}
    \cup { <<Sep, "t", Sep, DotDot>>, <<Sep, "t", Sep, "t">>, <<"t", Sep, "t">> }
    \cup (IF plat = "nt" THEN { <<DriveTok, Bsl, Bsl>>, <<DriveTok, Bsl, "t">> }
          ELSE { <<Sep, Bsl, Sep, Bsl>> })

SafeTargets(plat) ==
    { <<Sep, "t">>, <<Sep>>, <<"t">>, <<Sep, "etc">> }
    \cup (IF plat = "nt" THEN { <<DriveTok, Bsl, "t">> } ELSE { <<Sep, Sep, "t">> })

MemberNames ==
    Strings(PathTokens, MaxNameLen)
    \cup { <<DotDot, Sep, DotDot, Sep, "etc", Sep, "passwd">>,
           <<Sep, "etc", Sep, "passwd">>,
           <<DriveTok, Bsl, "Windows", Bsl, "x">>,
           <<"userdata", Sep, "a", Sep, "b.txt">>,
           <<"t", Sep, DotDot, Sep, "t">>,
           <<"t", Bsl, DotDot, Bsl, DotDot, Bsl, "t">> }

PathArgs(plat) ==
    {[target |-> t, name |-> <<>>] : t \in RootTargets(plat)}
    \cup {[target |-> t, name |-> n] : t \in SafeTargets(plat), n \in MemberNames}

InitPath ==
    /\ platform \in Platforms
    /\ cwd \in {<<>>, Pth(<<"w">>)}
    /\ pf = NoPf
    /\ fs = EmptyFs
    /\ zip = Container(FALSE, "zip", "ok", <<>>)
    /\ arg \in PathArgs(platform)
    /\ pc = "path_call"
    /\ loc = NoLoc
    /\ res = RestoreResults
    /\ hist = NewHist(fs)

SafeMemberCall ==
    /\ pc = "path_call"
    /\ pf' = [fn |-> "_is_safe_zip_member",
              result |-> _is_safe_zip_member(platform, cwd, arg.target, arg.name)]
    /\ pc' = "done"
    /\ UNCHANGED <<platform, cwd, fs, zip, arg, loc, res, hist>>

DriveRootCall ==
    /\ pc = "path_call"
    /\ \E resolveFails \in BOOLEAN :
          pf' = [fn |-> "_is_drive_root", resolveFails |-> resolveFails,
                 result |-> _is_drive_root(platform, cwd, arg.target, resolveFails)]
    /\ pc' = "done"
    /\ UNCHANGED <<platform, cwd, fs, zip, arg, loc, res, hist>>

NextPath == SafeMemberCall \/ DriveRootCall

SpecPath == InitPath /\ [][NextPath]_vars

-----------------------------------------------------------------------------
(* ArchiveBuilder: create_backup_archive(kodi_path, backup_destination,     *)
(* filename).  The archive it writes is the value of zip.                   *)

\* the order in which the system lists the names of a directory: that of
\* ListingOrder or its reverse
ListingOrder ==
    << <<"a">>, <<"a", Bsl, "b">>, <<"b">>, <<"c">>, <<"d">>, <<"e">>,
       <<"userdata">>, <<"addons">>, <<"Thumbnails">>, <<"packages">>,
       <<"p.zip">>, <<"t">>, <<"notes.txt">> >>

ListingRank(g) == CHOOSE i \in 1..Len(ListingOrder) : ListingOrder[i] = g

RECURSIVE Listed(_, _)
Listed(names, rev) ==
    IF names = {} THEN <<>>
    ELSE LET first == CHOOSE g \in names : \A h \in names :
                         IF rev THEN ListingRank(h) <= ListingRank(g)
                         ELSE ListingRank(g) <= ListingRank(h)
         IN  <<first>> \o Listed(names \ {first}, rev)

\* os.walk(top), top down: the files of a directory, then its directories
RECURSIVE walk(_, _, _)
RECURSIVE WalkEach(_, _, _, _)
WalkEach(f, top, names, rev) ==
    IF names = <<>> THEN <<>>
    ELSE walk(f, Append(top, Head(names)), rev) \o WalkEach(f, top, Tail(names), rev)

walk(f, top, rev) ==
    IF ~IsDir(f, top) THEN <<>>
    ELSE LET names == IterDir(f, top)
             files == {g \in names : Append(top, g) \in DOMAIN f.files}
             dirs == names \ files
             here == Listed(files, rev)
         IN  [i \in 1..Len(here) |-> Append(top, here[i])]
             \o WalkEach(f, top, Listed(dirs, rev), rev)

\* os.sep.join(segs)
RECURSIVE JoinWith(_, _)
JoinWith(segs, sep) ==
    IF segs = <<>> THEN <<>>
    ELSE IF Len(segs) = 1 THEN segs[1]
    ELSE segs[1] \o <<sep>> \o JoinWith(Tail(segs), sep)

\* os.path.relpath(file_path, kodi_path) as a string of the platform
relpath(plat, file_path, kodi_abs) ==
    JoinWith(SubSeq(file_path, Len(kodi_abs) + 1, Len(file_path)),
             IF plat = "nt" THEN Bsl ELSE Sep)

\* arcname = rel_path.replace("\\", "/")
Arcname(rel_path) == ReplaceBackslash(rel_path)

\* the loop over the files of one walk; acc is [members, size, skipped].
\* A file of failing.files raises at getsize or when zipf.write opens it and
\* leaves no member; a file of failing.cut raises while zipf.write copies
\* it, and the member zipf.write began stays in the archive with the part
\* that was copied (here none of it).  Both are skipped and counted
RECURSIVE ArchiveFiles(_, _, _, _, _, _)
ArchiveFiles(plat, f, kodi_abs, files, failing, acc) ==
    IF files = <<>> THEN acc
    ELSE LET file_path == Head(files)
             rel_path == relpath(plat, file_path, kodi_abs)
             arcname == Arcname(rel_path)
             next == IF file_path \in failing.cut
                     THEN [acc EXCEPT
                              !.members = Append(@, [name |-> arcname,
                                                     data |-> ""]),
                              !.skipped = @ + 1]
                     ELSE IF file_path \in failing.files
                     THEN [acc EXCEPT !.skipped = @ + 1]
                     ELSE [acc EXCEPT
                              !.members = Append(@, [name |-> arcname,
                                                     data |-> f.files[file_path]]),
                              !.size = @ + Size(f.files[file_path])]
         IN  ArchiveFiles(plat, f, kodi_abs, Tail(files), failing, next)

\* what the environment does to one call: the mkdir of the destination, the
\* opening or the closing of the archive raise, the files that cannot be
\* read (files), those of them that fail part-way through the copy (cut),
\* the order of the listings
BuildFaults(f, kodi_abs) ==
    UNION {{[mkdir |-> m, open |-> o, close |-> c, files |-> fl, cut |-> ct,
             rev |-> r] :
                m \in BOOLEAN, o \in BOOLEAN, c \in BOOLEAN, r \in BOOLEAN,
                ct \in SUBSET fl} :
           fl \in SUBSET FilesUnder(f, kodi_abs)}

\* how often create_backup_archive calls os.walk on each of the two
\* directories: once to count the files (lines 344-348, when counted) and
\* once to write them (lines 360-368, when written), if the directory exists
Walks(f, kodi_abs, counted, written) ==
    [seg \in {UserdataSeg, AddonsSeg} |->
        IF Exists(f, Append(kodi_abs, seg))
        THEN (IF counted THEN 1 ELSE 0) + (IF written THEN 1 ELSE 0)
        ELSE 0]

\* a builder that archives userdata only
BuildSkipsAddons(plat, wd, f, z, kodi_path, backup_destination, ext, fault) ==
    LET kodi_abs == abspath(plat, wd, kodi_path)
        files == walk(f, Append(kodi_abs, UserdataSeg), fault.rev)
        acc == ArchiveFiles(plat, f, kodi_abs, files, fault,
                            [members |-> <<>>, size |-> 0, skipped |-> 0])
    IN  [raised |-> FALSE, ok |-> TRUE, size |-> acc.size, skipped |-> acc.skipped,
         total_files |-> Len(files), walks |-> Walks(f, kodi_abs, TRUE, TRUE),
         fs |-> f, zip |-> [exists |-> TRUE, ext |-> ext, state |-> "ok",
                            members |-> acc.members]]

\* create_backup_archive(kodi_path, backup_destination, filename).  The
\* result: raised (the call ended in an exception), ok and size (the pair it
\* returned), the file system and the archive it left
create_backup_archive(plat, wd, f, z, kodi_path, backup_destination, ext, fault) ==
    LET kodi_abs == abspath(plat, wd, kodi_path)
        backup_dir == abspath(plat, wd, backup_destination)
        made == MkdirChain(f, <<>>, backup_dir)
        files == walk(f, Append(kodi_abs, UserdataSeg), fault.rev)
                 \o walk(f, Append(kodi_abs, AddonsSeg), fault.rev)
        acc == ArchiveFiles(plat, f, kodi_abs, files, fault,
                            [members |-> <<>>, size |-> 0, skipped |-> 0])
    IN  IF fault.mkdir \/ ~CanMkdirChain(f, <<>>, backup_dir)
        THEN [raised |-> TRUE, ok |-> FALSE, size |-> 0, skipped |-> 0,
              total_files |-> 0, walks |-> Walks(f, kodi_abs, FALSE, FALSE),
              fs |-> f, zip |-> z]
        ELSE IF fault.open
        THEN [raised |-> FALSE, ok |-> FALSE, size |-> 0, skipped |-> 0,
              total_files |-> Len(files),
              walks |-> Walks(f, kodi_abs, TRUE, FALSE),
              fs |-> made, zip |-> z]
        ELSE IF fault.close
        THEN [raised |-> FALSE, ok |-> FALSE, size |-> 0, skipped |-> acc.skipped,
              total_files |-> Len(files),
              walks |-> Walks(f, kodi_abs, TRUE, TRUE),
              fs |-> made,
              zip |-> [exists |-> TRUE, ext |-> ext, state |-> "badzip",
                       members |-> acc.members]]
        ELSE [raised |-> FALSE, ok |-> TRUE, size |-> acc.size,
              skipped |-> acc.skipped, total_files |-> Len(files),
              walks |-> Walks(f, kodi_abs, TRUE, TRUE), fs |-> made,
              zip |-> [exists |-> TRUE, ext |-> ext, state |-> "ok",
                       members |-> acc.members]]

-----------------------------------------------------------------------------
(* Build, then Validate and Extract of the archive it wrote into the empty  *)
(* directory r.                                                             *)

MaxSourceFiles == 3

\* on POSIX a file name may hold a backslash
SourceUniverse(plat) ==
    { <<Pth(<<"k", "userdata", "a", "b">>), "x">>,
      <<Pth(<<"k", "userdata", "c">>), "yy">>,
      <<Pth(<<"k", "addons", "b">>), "yy">>,
      <<Pth(<<"k", "addons", "d", "c">>), "old">> }
    \cup (IF plat = "posix"
          THEN { << <<<<"k">>, <<"userdata">>, <<"a", Bsl, "b">>>>, "old" >> }
          ELSE {})

TreeOf(pairs) ==
    [q \in {pr[1] : pr \in pairs} |-> (CHOOSE pr \in pairs : pr[1] = q)[2]]

SourceTrees(plat) ==
    {TreeOf(pairs) : pairs \in {ps \in SUBSET SourceUniverse(plat) :
                                   Cardinality(ps) <= MaxSourceFiles}}

BuildFileSystems(plat) ==
    {MkFs(tree, {Pth(<<"k", "userdata">>), Pth(<<"k", "addons">>), Pth(<<"r">>)}) :
        tree \in SourceTrees(plat)}

Abs(plat, name) ==
    IF plat = "nt" THEN <<DriveTok, Bsl, name>> ELSE <<Sep, name>>

BuildArgs(plat) ==
    {[kodi_path |-> Abs(plat, "k"), backup_destination |-> Abs(plat, "o"),
      ext |-> e, target |-> Abs(plat, "r")] : e \in {"zip", "ZIP", "bak"}}

InitBuild ==
    /\ platform \in Platforms
    /\ cwd = <<>>
    /\ pf = NoPf
    /\ fs \in BuildFileSystems(platform)
    /\ zip = Container(FALSE, "zip", "ok", <<>>)
    /\ arg \in BuildArgs(platform)
    /\ pc = "build"
    /\ loc = NoLoc
    /\ res = RestoreResults
    /\ hist = NewHist(fs)

Build ==
    /\ pc = "build"
    /\ \E fault \in BuildFaults(fs, abspath(platform, cwd, arg.kodi_path)) :
          LET r == create_backup_archive(platform, cwd, fs, zip, arg.kodi_path,
                                         arg.backup_destination, arg.ext, fault)
          IN  /\ fs' = r.fs
              /\ zip' = r.zip
              /\ pf' = [fn |-> "create_backup_archive", raised |-> r.raised,
                        ok |-> r.ok, size |-> r.size, skipped |-> r.skipped,
                        walks |-> r.walks, fault |-> fault]
              /\ pc' = IF r.ok THEN "built" ELSE "done"
              /\ hist' = Record("build", r.ok,
                                fault.mkdir \/ fault.open \/ fault.close
                                \/ fault.files # {})
    /\ UNCHANGED <<platform, cwd, arg, loc, res>>

ValidateBuilt ==
    /\ pc = "built"
    /\ pf' = [validation |-> validate_backup_file(platform, zip)] @@ pf
    /\ pc' = "validated"
    /\ UNCHANGED <<platform, cwd, fs, zip, arg, loc, res, hist>>

ExtractBuilt ==
    /\ pc = "validated"
    /\ \E openRaises \in BOOLEAN, failset \in SUBSET (1..Len(zip.members)) :
          LET r == extract_backup_with_progress(platform, cwd, fs, zip,
                                                arg.target, openRaises, failset)
          IN  /\ fs' = r.fs
              /\ pf' = [extracted |-> r.ok] @@ pf
              /\ hist' = [Record("extract", r.ok, openRaises \/ failset # {}) EXCEPT
                             !.written = r.written, !.skipped = r.skipped,
                             !.unsafe = r.unsafe]
    /\ pc' = "done"
    /\ UNCHANGED <<platform, cwd, zip, arg, loc, res>>

NextBuild == Build \/ ValidateBuilt \/ ExtractBuilt

SpecBuild == InitBuild /\ [][NextBuild]_vars

-----------------------------------------------------------------------------
(* Properties of the restore runs *)

StepNames == {hist.steps[i].step : i \in 1..Len(hist.steps)}

LastStep == hist.steps[Len(hist.steps)]

TargetUserdata == Append(TargetAbs, UserdataSeg)
TargetAddons == Append(TargetAbs, AddonsSeg)

\* the files that lay under the target's userdata and addons at the call
OldKodiFiles ==
    FilesUnder(hist.fs0, TargetUserdata) \cup FilesUnder(hist.fs0, TargetAddons)

KodiFilesUnchanged ==
    \A p \in OldKodiFiles :
        p \in DOMAIN fs.files /\ fs.files[p] = hist.fs0.files[p]

ArchiveValid == validate_backup_file(platform, zip).valid

HasUnsafeMember ==
    \E i \in 1..Len(zip.members) :
        ~_is_safe_zip_member(platform, cwd, arg.target, zip.members[i].name)

\* C1: when the archive passes the validator and holds a member whose name
\* fails IsSafeMember against the target, the restore does not succeed,
\* neither ClearExisting nor Extract runs, and every file that lay under the
\* target's userdata and addons is still there with its content.
C1_RefusedBeforeClear ==
    (ArchiveValid /\ HasUnsafeMember) =>
        /\ ~res.success
        /\ "clear" \notin StepNames
        /\ "extract" \notin StepNames
        /\ KodiFilesUnchanged

C1_Witness ==
    /\ pc = "done"
    /\ ArchiveValid /\ HasUnsafeMember
    /\ OldKodiFiles # {}
    /\ LastStep = [step |-> "prescan", ok |-> FALSE, fault |-> FALSE]

Rank(step) ==
    CASE step = "validate" -> 1
      [] step = "root" -> 2
      [] step = "mkdir" -> 3
      [] step = "content" -> 4
      [] step = "prescan" -> 5
      [] step = "clear" -> 6
      [] step = "extract" -> 7

AlwaysRun == {"validate", "root", "content", "prescan", "extract"}

\* C2: the steps of a restore run in the order validate, root check, content
\* check, pre-scan, clear (only for a target that held both directories),
\* extract, none of the unconditional ones left out; a step that fails is the
\* last one, the call is over and success is false.
C2_FixedOrderFailStop ==
    LET st == hist.steps
    IN  /\ \A i \in 1..Len(st) - 1 : Rank(st[i].step) < Rank(st[i + 1].step)
        /\ \A i \in 1..Len(st) : \A m \in AlwaysRun :
              Rank(m) < Rank(st[i].step) => \E j \in 1..i - 1 : st[j].step = m
        /\ \A i \in 1..Len(st) :
              ~st[i].ok => i = Len(st) /\ pc = "done" /\ ~res.success
        /\ "clear" \in StepNames => loc.has_userdata /\ loc.has_addons
        /\ ("extract" \in StepNames /\ loc.has_userdata /\ loc.has_addons)
              => "clear" \in StepNames
        /\ res.success => LastStep.step = "extract" /\ pc = "done"

C2_Witness ==
    /\ pc = "done" /\ res.success
    /\ [i \in 1..Len(hist.steps) |-> hist.steps[i].step]
         = <<"validate", "root", "content", "prescan", "clear", "extract">>

ResolvesToRoot == abspath(platform, cwd, arg.target) = <<>>

\* C3: when the target resolves to a file system root the restore does not
\* succeed and the file system is as it was at the call: no directory made,
\* nothing deleted, nothing extracted, whatever the root holds.
C3_RootRefused ==
    ResolvesToRoot =>
        /\ ~res.success
        /\ fs = hist.fs0
        /\ "clear" \notin StepNames /\ "extract" \notin StepNames

C3_Witness ==
    /\ pc = "done" /\ ResolvesToRoot /\ ArchiveValid
    /\ IsDir(fs, <<UserdataSeg>>) /\ IsDir(fs, <<AddonsSeg>>)
    /\ LastStep = [step |-> "root", ok |-> FALSE, fault |-> FALSE]

\* every name directly inside the target, lower-cased, is on the allow-list
OnlyAllowListed ==
    \A e \in IterDir(hist.fs0, TargetAbs) :
        LowerSeg(e) \in {<<".ds_store">>, <<"thumbs.db">>, <<"desktop.ini">>}

TargetExisted == Exists(hist.fs0, TargetAbs)

HeldBoth == IsDir(hist.fs0, TargetUserdata) /\ IsDir(hist.fs0, TargetAddons)

\* C4 as claimed: for a target that exists and does not hold both
\* directories, the content check passes exactly when every entry of the
\* target is allow-listed.
C4_AsClaimed ==
    \A i \in 1..Len(hist.steps) :
        (hist.steps[i].step = "content" /\ TargetExisted /\ ~HeldBoth) =>
            (hist.steps[i].ok <=> OnlyAllowListed)

\* C4: for a target that exists and does not hold both directories, the
\* content check passes exactly when the target can be listed and every entry
\* of it is allow-listed (lower-cased); a refused check ends the call with
\* success false.
C4_AllowListDecides ==
    \A i \in 1..Len(hist.steps) :
        (hist.steps[i].step = "content" /\ TargetExisted /\ ~HeldBoth) =>
            /\ hist.steps[i].ok <=>
                  (~hist.steps[i].fault /\ IsDir(hist.fs0, TargetAbs)
                   /\ OnlyAllowListed)
            /\ ~hist.steps[i].ok => ~res.success /\ pc = "done"

C4_Witness ==
    /\ pc = "done" /\ res.success
    /\ IterDir(hist.fs0, TargetAbs) = {<<"Desktop.ini">>}

\* the name p has in an archive laid over the target
RelName(p) == JoinSegs(SubSeq(p, Len(TargetAbs) + 1, Len(p)))

IsArchiveMember(p) ==
    \E i \in 1..Len(zip.members) :
        ReplaceBackslash(zip.members[i].name) = RelName(p)

\* C5: ClearExisting runs only for a target that held both userdata and
\* addons at the call; after a successful restore into such a target no file
\* that lay under its userdata or addons and is no member of the archive is
\* left.
C5_FullReplace ==
    /\ "clear" \in StepNames => HeldBoth
    /\ (pc = "done" /\ res.success /\ HeldBoth) =>
          \A p \in OldKodiFiles : p \in DOMAIN fs.files => IsArchiveMember(p)

C5_Witness ==
    /\ pc = "done" /\ res.success /\ HeldBoth
    /\ \E p \in OldKodiFiles : p \notin DOMAIN fs.files
    /\ \E p \in OldKodiFiles : p \in DOMAIN fs.files /\ fs.files[p] # "old"

\* the members that are files and whose name fails IsSafeMember
UnsafeFileMembers ==
    {i \in 1..Len(zip.members) :
        /\ zip.members[i].name[Len(zip.members[i].name)] # Sep
        /\ ~_is_safe_zip_member(platform, cwd, arg.target, zip.members[i].name)}

FirstUnsafe == CHOOSE i \in UnsafeFileMembers : \A j \in UnsafeFileMembers : i <= j

\* the places member i can come to lie at: its name under the target, with
\* the ".." of the name folded or dropped
PlacesOf(i) ==
    LET segs == SplitOn(ReplaceBackslash(zip.members[i].name), {Sep})
    IN  { NormSegs(TargetAbs, segs),
          TargetAbs \o SelectSeq(segs, LAMBDA g : g # <<>> /\ g # <<DotDot>>) }

SameAt(p) ==
    /\ p \in DOMAIN fs.files <=> p \in DOMAIN hist.fs0.files
    /\ p \in DOMAIN fs.files => fs.files[p] = hist.fs0.files[p]

\* C6: Extract called on its own with an archive that holds an unsafe file
\* member returns false, and no member at or after the first unsafe one is
\* written: the places of those members are as they were before the call.
C6_ExtractStopsAtUnsafe ==
    (pc = "done" /\ pf.fn = "extract_backup_with_progress"
       /\ zip.state = "ok" /\ UnsafeFileMembers # {}) =>
        /\ ~pf.result
        /\ \A j \in FirstUnsafe..Len(zip.members) : \A p \in PlacesOf(j) :
              p \notin hist.written /\ SameAt(p)

C6_Witness ==
    /\ pc = "done" /\ pf.fn = "extract_backup_with_progress"
    /\ UnsafeFileMembers # {} /\ FirstUnsafe = 2 /\ Len(zip.members) = 3
    /\ zip.members[3].name = <<"addons", Sep, "b">>
    /\ hist.written # {}
    /\ ~hist.faults

-----------------------------------------------------------------------------
(* Properties of the two guards *)

SafeCalled == pc = "done" /\ pf.fn = "_is_safe_zip_member"

\* the name is empty or begins with a separator or a drive prefix
RejectedOutright ==
    \/ arg.name = <<>>
    \/ arg.name[1] \in {Sep, Bsl}
    \/ arg.name[1] = DriveTok

\* the normalized join targetDir/name lies at or below targetDir
JoinAtOrBelow ==
    IsPrefix(TargetAbs,
             NormSegs(TargetAbs, SplitOn(ReplaceBackslash(arg.name), {Sep})))

EtcPasswdUp == <<DotDot, Sep, DotDot, Sep, "etc", Sep, "passwd">>
EtcPasswdAbs == <<Sep, "etc", Sep, "passwd">>
WindowsX == <<DriveTok, Bsl, "Windows", Bsl, "x">>
UserdataAB == <<"userdata", Sep, "a", Sep, "b.txt">>

\* a POSIX target spelled with exactly two leading slashes
TwoSlashTarget ==
    /\ platform = "posix"
    /\ Len(arg.target) >= 2 /\ arg.target[1] = Sep /\ arg.target[2] = Sep
    /\ (Len(arg.target) = 2 \/ arg.target[3] # Sep)

C7_Accepted ==
    /\ SafeCalled /\ arg.name = EtcPasswdUp /\ pf.result
    /\ arg.target = <<Sep, "etc">>

RootCalled == pc = "done" /\ pf.fn = "_is_drive_root"

\* the segments of the target as it is spelled
SpelledSegments ==
    SelectSeq(SplitOn(StripDrive(platform, arg.target), Seps(platform)),
              LAMBDA g : g # <<>>)

\* "/" or a drive and a separator, with any number of trailing separators
SpelledRoot ==
    LET r == StripDrive(platform, arg.target)
    IN  /\ r # <<>>
        /\ \A i \in 1..Len(r) : r[i] \in Seps(platform)

\* a segment made of backslashes only, which on POSIX is a name
OnlyBackslashes(g) == \A i \in 1..Len(g) : g[i] = Bsl

C8_WitnessDeep ==
    /\ RootCalled /\ ~pf.result /\ arg.target = <<Sep, "t", Sep, "t">>

-----------------------------------------------------------------------------
(* Properties of Build *)

KodiAbs == abspath(platform, cwd, arg.kodi_path)

\* the paths, taken from base on, of the files f holds under base/dir
RelFiles(f, base, dir) ==
    {SubSeq(q, Len(base) + 1, Len(q)) : q \in FilesUnder(f, Append(base, dir))}

SameTree(dir) ==
    /\ RelFiles(fs, TargetAbs, dir) = RelFiles(hist.fs0, KodiAbs, dir)
    /\ \A rel \in RelFiles(hist.fs0, KodiAbs, dir) :
          fs.files[TargetAbs \o rel] = hist.fs0.files[KodiAbs \o rel]

RoundTripDone ==
    /\ pc = "done" /\ pf.fn = "create_backup_archive" /\ pf.ok
    /\ "extracted" \in DOMAIN pf /\ pf.extracted

\* C9: after Build and Extract of the archive into the empty directory, in a
\* run in which no call of the system failed, the directory holds under
\* userdata and under addons the files of the source, at the same relative
\* paths and with the same contents.
C9_RoundTrip ==
    (RoundTripDone /\ ~hist.faults) =>
        SameTree(UserdataSeg) /\ SameTree(AddonsSeg)

\* the round trip of a source none of whose names holds a backslash
C9_PlainNames ==
    (RoundTripDone /\ ~hist.faults
       /\ \A q \in DOMAIN hist.fs0.files : \A i \in 1..Len(q) :
             \A j \in 1..Len(q[i]) : q[i][j] # Bsl) =>
        SameTree(UserdataSeg) /\ SameTree(AddonsSeg)

\* a fault-free round trip that does not give the source back
C9_Divergence ==
    /\ RoundTripDone /\ ~hist.faults
    /\ ~SameTree(UserdataSeg)
    /\ Cardinality(FilesUnder(hist.fs0, KodiAbs)) = 2

SourceHasBoth ==
    /\ FilesUnder(hist.fs0, Append(KodiAbs, UserdataSeg)) # {}
    /\ FilesUnder(hist.fs0, Append(KodiAbs, AddonsSeg)) # {}

BuildCalled == pf.fn = "create_backup_archive"

Walked ==
    FilesUnder(hist.fs0, Append(KodiAbs, UserdataSeg))
        \cup FilesUnder(hist.fs0, Append(KodiAbs, AddonsSeg))

Failing == Walked \cap pf.fault.files

NamesIn(z) == {z.members[i].name : i \in 1..Len(z.members)}

ContainerHeld ==
    BuildCalled /\ ~pf.fault.mkdir /\ ~pf.fault.open /\ ~pf.fault.close

\* C11: when the archive was opened (and could be closed), Build returns
\* success whatever files fail; it counts every failing file as skipped, the
\* archive holds a member for exactly the files that did not fail, and the
\* returned total is the sum of the sizes of those files.
C11_SkipIsolation ==
    ContainerHeld =>
        /\ ~pf.raised /\ pf.ok
        /\ pf.skipped = Cardinality(Failing)
        /\ NamesIn(zip) =
              {Arcname(relpath(platform, q, KodiAbs)) : q \in Walked \ Failing}
        /\ pf.size = SizeOfFiles(hist.fs0, Walked \ Failing)

\* a successful Build that counted a file as skipped and left a member of
\* its name, without its data, in the archive
C11_Divergence ==
    /\ ContainerHeld /\ pf.ok /\ pc = "built"
    /\ Cardinality(Walked) = 2 /\ Cardinality(Failing) = 1
    /\ pf.skipped = 1 /\ Len(zip.members) = 2
    /\ \E q \in Failing :
          /\ hist.fs0.files[q] # ""
          /\ \E i \in 1..Len(zip.members) :
                /\ zip.members[i].name = Arcname(relpath(platform, q, KodiAbs))
                /\ zip.members[i].data = ""

\* what Build does with failing files: the same, but the archive also holds
\* an empty member for each file whose copy broke off
C11_SkippedMayLeaveMember ==
    ContainerHeld =>
        /\ ~pf.raised /\ pf.ok
        /\ pf.skipped = Cardinality(Failing)
        /\ NamesIn(zip) =
              {Arcname(relpath(platform, q, KodiAbs)) :
                  q \in Walked \ (Failing \ pf.fault.cut)}
        /\ pf.size = SizeOfFiles(hist.fs0, Walked \ Failing)

-----------------------------------------------------------------------------
(* CleanupCatalog and Clean: cleanup_cache_files(kodi_path,                 *)
(* cleanup_settings).  cleanup_settings is [given, map]: given is FALSE     *)
(* for None, map is the dictionary (a function on the keys it holds).       *)

\* the settings that stand in for None
default_settings ==
    [thumbnails |-> TRUE, tmdb_blur |-> TRUE, tmdb_crop |-> TRUE,
     addon_packages |-> TRUE, tmdb_database |-> FALSE, umbrella_cache |-> FALSE,
     umbrella_search |-> FALSE, cocoscrapers_cache |-> FALSE]

TmdbHelper == <<"userdata", "addon_data", "plugin.video.themoviedb.helper">>

UmbrellaData == <<"userdata", "addon_data", "plugin.video.umbrella">>

CocoData == <<"userdata", "addon_data", "script.module.cocoscrapers">>

\* the catalog, in the order of the dictionary literal; path is taken from
\* kodi_dir on
all_cleanup_targets ==
    << [key |-> "thumbnails", name |-> "Thumbnails",
        path |-> <<"userdata", "Thumbnails">>, is_directory |-> TRUE],
       [key |-> "tmdb_blur", name |-> "TMDbHelper blur cache",
        path |-> Append(TmdbHelper, "blur_v2"), is_directory |-> TRUE],
       [key |-> "tmdb_crop", name |-> "TMDbHelper crop cache",
        path |-> Append(TmdbHelper, "crop_v2"), is_directory |-> TRUE],
       [key |-> "addon_packages", name |-> "Addon packages",
        path |-> <<"addons", "packages">>, is_directory |-> TRUE],
       [key |-> "tmdb_database", name |-> "TMDbHelper database",
        path |-> Append(TmdbHelper, "database_07"), is_directory |-> TRUE],
       [key |-> "umbrella_cache", name |-> "Umbrella cache",
        path |-> Append(UmbrellaData, "cache.db"), is_directory |-> FALSE],
       [key |-> "umbrella_search", name |-> "Umbrella search",
        path |-> Append(UmbrellaData, "search.db"), is_directory |-> FALSE],
       [key |-> "cocoscrapers_cache", name |-> "Cocoscrapers cache",
        path |-> Append(CocoData, "cache.db"), is_directory |-> FALSE] >>

\* dict.get(key, default)
Get(d, key, default) == IF key \in DOMAIN d THEN d[key] ELSE default

\* the dictionary the loop consults
EffectiveSettings(cleanup_settings) ==
    IF ~cleanup_settings.given THEN default_settings ELSE cleanup_settings.map

\* kodi_dir / "userdata" / ...
TargetPath(kodi_dir, target) == kodi_dir \o Pth(target.path)

\* the size added up before the deletion: the files whose size can be read
\* (os.walk of a path that is not a directory yields nothing)
MeasuredSize(f, p, target, unsized) ==
    IF target.is_directory
    THEN IF IsDir(f, p) THEN SizeOfFiles(f, FilesUnder(f, p) \ unsized) ELSE 0
    ELSE IF p \in DOMAIN f.files /\ p \notin unsized THEN Size(f.files[p]) ELSE 0

\* rmtree of a path that is not a directory and unlink of a directory raise,
\* as does any deletion the environment makes fail
DeletionRaises(f, p, target, fault) ==
    \/ target.key \in fault.fail
    \/ target.is_directory /\ ~IsDir(f, p)
    \/ ~target.is_directory /\ IsDir(f, p)

\* a pass that adds the measured size of a target before it deletes it
CleanOneCountsFirst(kodi_dir, settings, target, fault, acc) ==
    LET p == TargetPath(kodi_dir, target)
        size_freed == MeasuredSize(acc.fs, p, target, fault.unsized)
        no == [name |-> target.name, ok |-> FALSE]
    IN  IF ~Get(settings, target.key, FALSE)
        THEN [acc EXCEPT !.results = Append(@, no), !.measured = Append(@, 0)]
        ELSE IF ~Exists(acc.fs, p)
        THEN [acc EXCEPT !.results = Append(@, no), !.measured = Append(@, 0)]
        ELSE IF DeletionRaises(acc.fs, p, target, fault)
        THEN [acc EXCEPT !.results = Append(@, no),
                         !.measured = Append(@, size_freed),
                         !.total = @ + size_freed,
                         !.fs = IF target.is_directory /\ IsDir(acc.fs, p)
                                THEN RmTreePartly(acc.fs, p, fault.kept)
                                ELSE acc.fs]
        ELSE [acc EXCEPT !.results = Append(@, [name |-> target.name, ok |-> TRUE]),
                         !.measured = Append(@, size_freed),
                         !.total = @ + size_freed,
                         !.fs = RmTree(acc.fs, p)]

\* a pass that leaves a target whose deletion fails out of the results
CleanOneDropsFailed(kodi_dir, settings, target, fault, acc) ==
    LET p == TargetPath(kodi_dir, target)
        size_freed == MeasuredSize(acc.fs, p, target, fault.unsized)
        no == [name |-> target.name, ok |-> FALSE]
    IN  IF ~Get(settings, target.key, FALSE)
        THEN [acc EXCEPT !.results = Append(@, no), !.measured = Append(@, 0)]
        ELSE IF ~Exists(acc.fs, p)
        THEN [acc EXCEPT !.results = Append(@, no), !.measured = Append(@, 0)]
        ELSE IF DeletionRaises(acc.fs, p, target, fault)
        THEN acc
        ELSE [acc EXCEPT !.results = Append(@, [name |-> target.name, ok |-> TRUE]),
                         !.measured = Append(@, size_freed),
                         !.total = @ + size_freed,
                         !.fs = RmTree(acc.fs, p)]

\* a pass that deletes every target that is present, enabled or not
CleanOneIgnoresSettings(kodi_dir, settings, target, fault, acc) ==
    LET p == TargetPath(kodi_dir, target)
        size_freed == MeasuredSize(acc.fs, p, target, fault.unsized)
        no == [name |-> target.name, ok |-> FALSE]
    IN  IF ~Exists(acc.fs, p)
        THEN [acc EXCEPT !.results = Append(@, no), !.measured = Append(@, 0)]
        ELSE IF DeletionRaises(acc.fs, p, target, fault)
        THEN [acc EXCEPT !.results = Append(@, no),
                         !.measured = Append(@, size_freed)]
        ELSE [acc EXCEPT !.results = Append(@, [name |-> target.name,
                                                ok |-> Get(settings, target.key, FALSE)]),
                         !.measured = Append(@, size_freed),
                         !.total = @ + size_freed,
                         !.fs = RmTree(acc.fs, p)]

\* one turn of the loop of lines 227-271; acc is [results, measured, total,
\* fs], results the list of (name, ok) in the order of insertion,
\* measured the size_freed computed for each target (0 when none was)
CleanOne(kodi_dir, settings, target, fault, acc) ==
    LET p == TargetPath(kodi_dir, target)
        size_freed == MeasuredSize(acc.fs, p, target, fault.unsized)
        no == [name |-> target.name, ok |-> FALSE]
    IN  IF ~Get(settings, target.key, FALSE)
        THEN [acc EXCEPT !.results = Append(@, no), !.measured = Append(@, 0)]
        ELSE IF ~Exists(acc.fs, p)
        THEN [acc EXCEPT !.results = Append(@, no), !.measured = Append(@, 0)]
        ELSE IF DeletionRaises(acc.fs, p, target, fault)
        THEN [acc EXCEPT !.results = Append(@, no),
                         !.measured = Append(@, size_freed),
                         !.fs = IF target.is_directory /\ IsDir(acc.fs, p)
                                THEN RmTreePartly(acc.fs, p, fault.kept)
                                ELSE acc.fs]
        ELSE [acc EXCEPT !.results = Append(@, [name |-> target.name, ok |-> TRUE]),
                         !.measured = Append(@, size_freed),
                         !.total = @ + size_freed,
                         !.fs = RmTree(acc.fs, p)]

RECURSIVE CleanLoop(_, _, _, _, _)
CleanLoop(kodi_dir, settings, targets, fault, acc) ==
    IF targets = <<>> THEN acc
    ELSE CleanLoop(kodi_dir, settings, Tail(targets), fault,
                   CleanOne(kodi_dir, settings, Head(targets), fault, acc))

\* a cleanup that records what it would delete and deletes nothing
CleanupRecordsOnly(plat, wd, f, kodi_path, cleanup_settings, fault) ==
    LET kodi_dir == abspath(plat, wd, kodi_path)
        acc == CleanLoop(kodi_dir, EffectiveSettings(cleanup_settings),
                         all_cleanup_targets, fault,
                         [results |-> <<>>, measured |-> <<>>, total |-> 0,
                          fs |-> f])
    IN  [results |-> acc.results, total_space_freed |-> acc.total,
         measured |-> acc.measured, fs |-> f]

\* cleanup_cache_files(kodi_path, cleanup_settings): the results, the total
\* and the file system it leaves.  fault is what the environment does: the
\* keys whose deletion raises (fail), the files a failing rmtree had not yet
\* removed (kept), the files whose size cannot be read (unsized)
cleanup_cache_files(plat, wd, f, kodi_path, cleanup_settings, fault) ==
    LET kodi_dir == abspath(plat, wd, kodi_path)
        acc == CleanLoop(kodi_dir, EffectiveSettings(cleanup_settings),
                         all_cleanup_targets, fault,
                         [results |-> <<>>, measured |-> <<>>, total |-> 0,
                          fs |-> f])
    IN  [results |-> acc.results, total_space_freed |-> acc.total,
         measured |-> acc.measured, fs |-> acc.fs]

-----------------------------------------------------------------------------
(* Clean called on its own on a Kodi directory /k.  The paths of the        *)
(* catalog are joined in the same way on every platform.                    *)

MaxCleanFiles == 2

MaxSettingKeys == 1

CatalogKeys == {all_cleanup_targets[i].key : i \in 1..Len(all_cleanup_targets)}

\* files that lie under the targets (database_07 also as a file where the
\* catalog expects a directory), and one file that lies under none
CleanUniverse ==
    { <<Pth(<<"k", "userdata", "Thumbnails", "a">>), "x">>,
      <<Pth(<<"k", "userdata", "Thumbnails", "b", "c">>), "yy">>,
      <<Pth(<<"k">>) \o Pth(TmdbHelper) \o Pth(<<"blur_v2", "a">>), "yy">>,
      <<Pth(<<"k">>) \o Pth(TmdbHelper) \o Pth(<<"crop_v2", "a">>), "x">>,
      <<Pth(<<"k", "addons", "packages", "a.zip">>), "old">>,
      <<Pth(<<"k">>) \o Pth(TmdbHelper) \o Pth(<<"database_07", "a">>), "x">>,
      <<Pth(<<"k">>) \o Pth(TmdbHelper) \o Pth(<<"database_07">>), "yy">>,
      <<Pth(<<"k">>) \o Pth(UmbrellaData) \o Pth(<<"cache.db">>), "yy">>,
      <<Pth(<<"k">>) \o Pth(UmbrellaData) \o Pth(<<"search.db">>), "x">>,
      <<Pth(<<"k">>) \o Pth(CocoData) \o Pth(<<"cache.db">>), "old">>,
      <<Pth(<<"k", "userdata", "guisettings.xml">>), "x">> }

\* no file lies below another file
Consistent(pairs) ==
    \A a \in pairs : \A b \in pairs : a # b => ~Under(a[1], b[1])

\* the directory crop_v2 is always there (empty when it holds no file)
CleanFileSystems ==
    {MkFs(TreeOf(pairs),
          {Pth(<<"k", "userdata">>), Pth(<<"k", "addons">>),
           Pth(<<"k">>) \o Pth(TmdbHelper) \o Pth(<<"crop_v2">>)}) :
        pairs \in {ps \in SUBSET CleanUniverse :
                      Cardinality(ps) <= MaxCleanFiles /\ Consistent(ps)}}

\* None, the dictionaries that hold up to MaxSettingKeys keys, the
\* dictionary of all keys the window passes: with its defaults, with the
\* packages switched off, with every target switched on
CleanSettings ==
    {[given |-> FALSE, map |-> <<>>]}
    \cup {[given |-> TRUE, map |-> d] :
            d \in UNION {[ks -> BOOLEAN] :
                            ks \in {k \in SUBSET CatalogKeys :
                                       Cardinality(k) <= MaxSettingKeys}}}
    \cup {[given |-> TRUE, map |-> default_settings],
          [given |-> TRUE, map |-> [default_settings EXCEPT !.addon_packages = FALSE]],
          [given |-> TRUE, map |-> [k \in CatalogKeys |-> TRUE]]}

InitClean ==
    /\ platform = "posix"
    /\ cwd = <<>>
    /\ pf = NoPf
    /\ fs \in CleanFileSystems
    /\ zip = Container(FALSE, "zip", "ok", <<>>)
    /\ arg \in {[kodi_path |-> Abs(platform, "k"), cleanup_settings |-> st] :
                   st \in CleanSettings}
    /\ pc = "clean"
    /\ loc = NoLoc
    /\ res = RestoreResults
    /\ hist = NewHist(fs)

\* the targets the loop tries to delete
Attempted(f, kodi_dir, cleanup_settings) ==
    {i \in 1..Len(all_cleanup_targets) :
        /\ Get(EffectiveSettings(cleanup_settings), all_cleanup_targets[i].key, FALSE)
        /\ Exists(f, TargetPath(kodi_dir, all_cleanup_targets[i]))}

\* the files under the targets of I
FilesOfTargets(f, kodi_dir, I) ==
    UNION {FilesUnder(f, TargetPath(kodi_dir, all_cleanup_targets[i])) : i \in I}

CleanFaults(f, kodi_dir, cleanup_settings) ==
    LET tried == Attempted(f, kodi_dir, cleanup_settings)
    IN  UNION {{[fail |-> {all_cleanup_targets[i].key : i \in fl}, kept |-> kp,
                 unsized |-> un] :
                    kp \in SUBSET FilesOfTargets(f, kodi_dir, fl),
                    un \in SUBSET FilesOfTargets(f, kodi_dir, tried)} :
               fl \in SUBSET tried}

Clean ==
    /\ pc = "clean"
    /\ \E fault \in CleanFaults(fs, abspath(platform, cwd, arg.kodi_path),
                                arg.cleanup_settings) :
          LET r == cleanup_cache_files(platform, cwd, fs, arg.kodi_path,
                                       arg.cleanup_settings, fault)
          IN  /\ fs' = r.fs
              /\ pf' = [fn |-> "cleanup_cache_files", results |-> r.results,
                        total_space_freed |-> r.total_space_freed,
                        measured |-> r.measured, fault |-> fault]
              /\ hist' = Record("clean", TRUE,
                                fault.fail # {} \/ fault.unsized # {})
    /\ pc' = "done"
    /\ UNCHANGED <<platform, cwd, zip, arg, loc, res>>

NextClean == Clean

SpecClean == InitClean /\ [][NextClean]_vars

-----------------------------------------------------------------------------
(* Properties of Clean *)

CleanCalled == pf.fn = "cleanup_cache_files"

Catalog == 1..Len(all_cleanup_targets)

KeyOf(i) == all_cleanup_targets[i].key

\* where target i lies
PathOfTarget(i) == TargetPath(KodiAbs, all_cleanup_targets[i])

\* the key of target i maps to true in the dictionary the call works with
MapsToTrue(i) ==
    Get(EffectiveSettings(arg.cleanup_settings), KeyOf(i), FALSE)

WasPresent(i) == Exists(hist.fs0, PathOfTarget(i))

\* target i is of the kind the catalog says (a directory, or a file)
RightKind(i) ==
    all_cleanup_targets[i].is_directory <=> IsDir(hist.fs0, PathOfTarget(i))

RecordedTrue(i) == pf.results[i].ok

\* nothing is left at the place of target i
Gone(i) ==
    /\ ~Exists(fs, PathOfTarget(i))
    /\ FilesUnder(fs, PathOfTarget(i)) = {}

\* what lies at and below the place of target i is what lay there at the call
Untouched(i) ==
    /\ FilesUnder(fs, PathOfTarget(i)) = FilesUnder(hist.fs0, PathOfTarget(i))
    /\ \A q \in FilesUnder(fs, PathOfTarget(i)) : fs.files[q] = hist.fs0.files[q]
    /\ {d \in fs.dirs : Under(PathOfTarget(i), d)}
          = {d \in hist.fs0.dirs : Under(PathOfTarget(i), d)}

OneEntryPerTarget ==
    /\ Len(pf.results) = Len(all_cleanup_targets)
    /\ \A i \in Catalog : pf.results[i].name = all_cleanup_targets[i].name

\* C12: whatever set of deletions fails, the result has one entry for each
\* of the 8 targets of the catalog, a target whose deletion failed is
\* recorded false, and every other target that is switched on, present and
\* of the right kind is recorded true and is gone.
C12_BestEffortPerTarget ==
    CleanCalled =>
        /\ Len(all_cleanup_targets) = 8
        /\ OneEntryPerTarget
        /\ \A i \in Catalog :
              /\ KeyOf(i) \in pf.fault.fail => ~RecordedTrue(i)
              /\ (MapsToTrue(i) /\ WasPresent(i) /\ RightKind(i)
                    /\ KeyOf(i) \notin pf.fault.fail)
                    => (RecordedTrue(i) /\ Gone(i))

\* the deletion of Thumbnails failed and the packages were deleted after it
C12_Witness ==
    /\ CleanCalled /\ pf.fault.fail = {"thumbnails"}
    /\ WasPresent(1) /\ ~RecordedTrue(1) /\ ~Gone(1)
    /\ WasPresent(4) /\ RecordedTrue(4) /\ Gone(4)

DefaultGroup == {"thumbnails", "tmdb_blur", "tmdb_crop", "addon_packages"}

ExplicitlyMaps(key, b) ==
    /\ arg.cleanup_settings.given
    /\ key \in DOMAIN arg.cleanup_settings.map
    /\ arg.cleanup_settings.map[key] = b

\* the rule of the two groups
EnabledByGroupRule(i) ==
    IF KeyOf(i) \in DefaultGroup
    THEN ~ExplicitlyMaps(KeyOf(i), FALSE)
    ELSE ExplicitlyMaps(KeyOf(i), TRUE)

\* a target that is present, of the right kind and whose deletion does not
\* fail shows whether Clean took it as enabled: it is deleted and recorded
\* true, or left alone and recorded false
ShowsEnabled(i) == WasPresent(i) /\ RightKind(i) /\ KeyOf(i) \notin pf.fault.fail

\* C13: a target of the default group is taken as enabled unless the
\* dictionary maps its key to false, a target of the optional group only
\* when the dictionary maps its key to true, with no dictionary and with a
\* dictionary that leaves keys out.
C13_GroupDefaults ==
    CleanCalled =>
        \A i \in Catalog :
            ShowsEnabled(i) =>
                /\ EnabledByGroupRule(i) => (RecordedTrue(i) /\ Gone(i))
                /\ ~EnabledByGroupRule(i) => (~RecordedTrue(i) /\ Untouched(i))

\* a dictionary that leaves out the key of Thumbnails, and the thumbnails
\* are still there after the call
C13_Divergence ==
    /\ CleanCalled /\ arg.cleanup_settings.given
    /\ DOMAIN arg.cleanup_settings.map = {"tmdb_database"}
    /\ ShowsEnabled(1) /\ FilesUnder(hist.fs0, PathOfTarget(1)) # {}
    /\ ~RecordedTrue(1) /\ Untouched(1)

\* what Clean does: with no dictionary the rule of the two groups, with a
\* dictionary exactly the keys it maps to true
C13_KeysMappedToTrue ==
    CleanCalled =>
        \A i \in Catalog :
            ShowsEnabled(i) =>
                LET on == IF arg.cleanup_settings.given
                          THEN ExplicitlyMaps(KeyOf(i), TRUE)
                          ELSE KeyOf(i) \in DefaultGroup
                IN  /\ on => (RecordedTrue(i) /\ Gone(i))
                    /\ ~on => (~RecordedTrue(i) /\ Untouched(i))

\* C14: a target whose key is not switched on is recorded false and what
\* lies at its place is the same after the call as before it, whatever
\* happens to the other targets.
C14_DisabledUntouched ==
    CleanCalled =>
        \A i \in Catalog :
            ~MapsToTrue(i) => (~RecordedTrue(i) /\ Untouched(i))

\* the packages are switched off and stay, the thumbnails are deleted
C14_Witness ==
    /\ CleanCalled /\ ExplicitlyMaps("addon_packages", FALSE)
    /\ FilesUnder(hist.fs0, PathOfTarget(4)) # {}
    /\ ~RecordedTrue(4) /\ Untouched(4)
    /\ RecordedTrue(1) /\ Gone(1)

\* the size of target i as it was measured at the call
SizeAtCall(i) ==
    SizeOfFiles(hist.fs0, FilesUnder(hist.fs0, PathOfTarget(i)) \ pf.fault.unsized)

RECURSIVE SumOfSizes(_)
SumOfSizes(I) ==
    IF I = {} THEN 0
    ELSE LET i == CHOOSE x \in I : TRUE
         IN  SizeAtCall(i) + SumOfSizes(I \ {i})

\* C20: the total returned is the sum of the sizes measured at the call of
\* exactly the targets recorded true; a target that is switched off, absent
\* or whose deletion failed is recorded false; the entries of the result
\* stand in the order of the catalog.
C20_ByteAccounting ==
    CleanCalled =>
        /\ pf.total_space_freed = SumOfSizes({i \in Catalog : RecordedTrue(i)})
        /\ \A i \in Catalog :
              (~MapsToTrue(i) \/ ~WasPresent(i) \/ KeyOf(i) \in pf.fault.fail)
                  => ~RecordedTrue(i)
        /\ OneEntryPerTarget

\* thumbnails of 2 bytes whose deletion failed, an Umbrella cache of 2 bytes
\* that was deleted: 2 bytes freed
C20_Witness ==
    /\ CleanCalled /\ pf.fault.fail = {"thumbnails"} /\ pf.fault.unsized = {}
    /\ SizeAtCall(1) = 2 /\ ~RecordedTrue(1)
    /\ SizeAtCall(6) = 2 /\ RecordedTrue(6)
    /\ pf.total_space_freed = 2

-----------------------------------------------------------------------------
(* Properties of the restore runs: an archive the validator refuses *)

HasMemberUnder(seg) ==
    \E i \in 1..Len(zip.members) :
        FirstSegment(ReplaceBackslash(zip.members[i].name)) = seg

\* the file is missing, its extension is not .zip, the container cannot be
\* read, or no member lies under userdata or none under addons
FailsValidator ==
    \/ ~zip.exists
    \/ Lower(zip.ext) # "zip"
    \/ zip.state # "ok"
    \/ ~HasMemberUnder(UserdataSeg)
    \/ ~HasMemberUnder(AddonsSeg)

\* C17: when the archive fails the validator, PerformRestore returns with
\* success false after the validation step alone, and the file system is
\* the one of the call: the target is not created, not cleared and not
\* written to.
C17_InvalidArchiveNoMutation ==
    FailsValidator =>
        /\ fs = hist.fs0
        /\ ~res.success
        /\ StepNames \subseteq {"validate"}
        /\ hist.steps # <<>> =>
              (pc = "done" /\ ~LastStep.ok /\ res.error_message # "")

\* an archive with no member under addons, refused for a target that does
\* not exist and is not created
C17_Witness ==
    /\ zip.exists /\ zip.ext = "zip" /\ zip.state = "ok"
    /\ HasMemberUnder(UserdataSeg) /\ ~HasMemberUnder(AddonsSeg)
    /\ ~Exists(hist.fs0, TargetAbs) /\ ~Exists(fs, TargetAbs)
    /\ pc = "done" /\ ~res.success
    /\ res.error_message = "Backup file does not contain required directories"

\* a missing archive file refused for a target that is a Kodi folder
C17_WitnessMissing ==
    /\ ~zip.exists /\ HeldBoth /\ pc = "done" /\ ~res.success
    /\ fs = hist.fs0 /\ res.error_message = "Backup file not found"

-----------------------------------------------------------------------------
(* ArchiveValidator.Validate called on its own, on a file that may fail     *)
(* several of its checks at once.                                           *)

\* the member lists of the restore runs; a file named userdata with the
\* directory entry "addons/"; "Userdata/a" with "addons/b"
ValidateMemberSeqs ==
    ArchiveSeqs
    \cup { << Member(<<"userdata">>, "x"), Member(<<"addons", Sep>>, "") >>,
           << Member(<<"Userdata", Sep, "a">>, "x"),
              Member(<<"addons", Sep, "b">>, "yy") >> }

ValidateArchives ==
    {Container(ex, ext, st, ms) :
        ex \in BOOLEAN, ext \in {"zip", "ZIP", "bak"},
        st \in {"ok", "badzip", "unreadable"}, ms \in ValidateMemberSeqs}

InitValidate ==
    /\ platform \in Platforms
    /\ cwd = <<>>
    /\ pf = NoPf
    /\ fs = EmptyFs
    /\ zip \in ValidateArchives
    /\ arg = [backup_file_path |-> "b"]
    /\ pc = "validate_call"
    /\ loc = NoLoc
    /\ res = RestoreResults
    /\ hist = NewHist(fs)

ValidateCall ==
    /\ pc = "validate_call"
    /\ pf' = [fn |-> "validate_backup_file",
              results |-> ValidateUnderSink(platform, zip)]
    /\ pc' = "done"
    /\ hist' = Record("validate", pf'.results.valid, FALSE)
    /\ UNCHANGED <<platform, cwd, fs, zip, arg, loc, res>>

NextValidate == ValidateCall

SpecValidate == InitValidate /\ [][NextValidate]_vars

-----------------------------------------------------------------------------
(* Properties of Validate *)

ValidateCalled == pf.fn = "validate_backup_file"

\* the message of the first check that fails, in the order: the file
\* exists, its extension, the container opens, the two directories
FirstFailingCheck ==
    IF ~zip.exists THEN "Backup file not found"
    ELSE IF Lower(zip.ext) # "zip" THEN "Backup file must be a ZIP archive"
    ELSE IF zip.state = "badzip" THEN "File is not a valid ZIP archive"
    ELSE IF zip.state # "ok" THEN "Error validating backup file"
    ELSE IF ~HasMemberUnder(UserdataSeg) \/ ~HasMemberUnder(AddonsSeg)
    THEN "Backup file does not contain required directories"
    ELSE ""

\* C19: Validate reports valid exactly when the file exists, its extension
\* is .zip (in any letter case), it opens as a zip and a member lies under
\* userdata and one under addons; otherwise the error is that of the first
\* failing check, and a malformed container has a message of its own.
C19_ValidatorChecks ==
    ValidateCalled =>
        /\ pf.results.valid <=>
              /\ zip.exists /\ Lower(zip.ext) = "zip" /\ zip.state = "ok"
              /\ HasMemberUnder(UserdataSeg) /\ HasMemberUnder(AddonsSeg)
        /\ pf.results.error_message = FirstFailingCheck
        /\ zip.exists /\ Lower(zip.ext) = "zip" /\ zip.state = "badzip"
              => pf.results.error_message \notin
                    {"Error validating backup file", "Backup file not found",
                     "Backup file must be a ZIP archive",
                     "Backup file does not contain required directories", ""}

\* a missing file with the wrong extension and no member under addons: the
\* first check speaks
C19_Witness ==
    /\ ValidateCalled /\ ~zip.exists /\ zip.ext = "bak"
    /\ ~HasMemberUnder(AddonsSeg)
    /\ pf.results.error_message = "Backup file not found"

\* a file named .ZIP whose only members are a file named userdata and the
\* directory entry addons/ is accepted
C19_WitnessValid ==
    /\ ValidateCalled /\ pf.results.valid /\ zip.ext = "ZIP"
    /\ pf.results.userdata_files = 0 /\ pf.results.addons_files = 0
    /\ pf.results.total_size = 1

-----------------------------------------------------------------------------
(* BackupOrchestrator: perform_full_backup(kodi_path, backup_destination,   *)
(* label, None, cleanup_settings), one action for each of its steps.        *)

BackupResults ==
    [success |-> FALSE, filename |-> "", size_before_cleanup |-> 0,
     size_after_cleanup |-> 0, space_freed |-> 0, final_backup_size |-> 0,
     cleanup_results |-> <<>>, error_message |-> ""]

\* validate_kodi_directory(kodi_path): both names exist under the path
validate_kodi_directory(plat, wd, f, kodi_path) ==
    LET kodi_dir == abspath(plat, wd, kodi_path)
    IN  /\ Exists(f, Append(kodi_dir, UserdataSeg))
        /\ Exists(f, Append(kodi_dir, AddonsSeg))

\* the handler of lines 466-468: the message is set, the sink is told; when
\* the sink raises there as well, the exception leaves perform_full_backup
BackupHandler ==
    /\ res' = [res EXCEPT !.error_message = "Unexpected error"]
    /\ pc' = IF SinkRaises THEN "raised" ELSE "done"

\* Step 1: validate the Kodi directory.  Path.exists() may raise (a
\* directory on the way that may not be searched); validate_kodi_directory
\* tells the sink what it found in either case
BackupValidate ==
    /\ pc = "b_validate"
    /\ \E existsRaises \in BOOLEAN :
          LET valid == validate_kodi_directory(platform, cwd, fs, arg.kodi_path)
          IN  /\ IF existsRaises \/ SinkRaises
                 THEN BackupHandler
                 ELSE IF ~valid
                 THEN /\ res' = [res EXCEPT !.error_message = "Invalid Kodi directory"]
                      /\ pc' = "done"
                 ELSE /\ res' = res
                      /\ pc' = "b_cleanup"
              /\ hist' = Record("validate", ~existsRaises /\ ~SinkRaises /\ valid,
                                existsRaises)
    /\ UNCHANGED <<platform, cwd, pf, fs, zip, arg, loc>>

\* Step 2: the cleanup pass (the sink has taken the message of Step 1)
BackupCleanup ==
    /\ pc = "b_cleanup"
    /\ \E fault \in CleanFaults(fs, abspath(platform, cwd, arg.kodi_path),
                                arg.cleanup_settings) :
          LET r == cleanup_cache_files(platform, cwd, fs, arg.kodi_path,
                                       arg.cleanup_settings, fault)
          IN  /\ fs' = r.fs
              /\ res' = [res EXCEPT !.cleanup_results = r.results,
                                    !.space_freed = r.total_space_freed]
              /\ pf' = [fn |-> "perform_full_backup", cleanup |-> fault,
                        fs1 |-> r.fs]
              /\ hist' = Record("cleanup", TRUE,
                                fault.fail # {} \/ fault.unsized # {})
    /\ pc' = "b_archive"
    /\ UNCHANGED <<platform, cwd, zip, arg, loc>>

\* the size of the archive file as stat() gives it: here the bytes of the
\* members (the compression is not modelled)
ContainerSize(z) == TotalSize(infolist("posix", z))

\* the faults of Build, each outcome once: after a failing mkdir or open
\* nothing else is tried
BackupBuildFaults(f, kodi_abs) ==
    {ft \in BuildFaults(f, kodi_abs) :
        /\ ft.mkdir => (~ft.open /\ ~ft.close /\ ft.files = {} /\ ~ft.rev)
        /\ ft.open => (~ft.close /\ ft.files = {} /\ ~ft.rev)}

\* Steps 3 and 4: the filename (it always ends in .zip, lines 295 and 298),
\* the archive, and the figures of the result
BackupArchive ==
    /\ pc = "b_archive"
    /\ \E fault \in BackupBuildFaults(fs, abspath(platform, cwd, arg.kodi_path)),
          statRaises \in BOOLEAN :
          LET r == create_backup_archive(platform, cwd, fs, zip, arg.kodi_path,
                                         arg.backup_destination, "zip", fault)
              named == [res EXCEPT !.filename = "kodi.bkup.zip"]
          IN  /\ fs' = r.fs
              /\ zip' = r.zip
              /\ pf' = [build |-> fault, skipped |-> r.skipped] @@ pf
              /\ IF r.raised \/ (r.ok /\ statRaises)
                 THEN /\ res' = [named EXCEPT !.error_message = "Unexpected error"]
                      /\ pc' = "done"
                 ELSE IF r.ok
                 THEN /\ res' = [named EXCEPT
                                    !.final_backup_size = ContainerSize(r.zip),
                                    !.size_before_cleanup = r.size + res.space_freed,
                                    !.size_after_cleanup = r.size,
                                    !.success = TRUE]
                      /\ pc' = "done"
                 ELSE /\ res' = [named EXCEPT
                                    !.error_message = "Failed to create backup archive"]
                      /\ pc' = "done"
              /\ hist' = Record("archive", r.ok /\ ~statRaises,
                                fault.mkdir \/ fault.open \/ fault.close
                                \/ fault.files # {} \/ statRaises)
    /\ UNCHANGED <<platform, cwd, arg, loc>>

NextBackup == BackupValidate \/ BackupCleanup \/ BackupArchive

-----------------------------------------------------------------------------
(* PerformFullBackup of a directory /k into /o, with a sink that works.     *)

MaxBackupFiles == 2

\* files of a Kodi folder, two of them under cleanup targets, a file named
\* userdata, and a file that lies beside the two directories
BackupUniverse ==
    { <<Pth(<<"k", "userdata", "a">>), "x">>,
      <<Pth(<<"k", "userdata", "Thumbnails", "t">>), "yy">>,
      <<Pth(<<"k", "addons", "b">>), "yy">>,
      <<Pth(<<"k", "addons", "packages", "p.zip">>), "old">>,
      <<Pth(<<"k", "userdata">>), "x">>,
      <<Pth(<<"k", "notes.txt">>), "x">> }

\* the directories that are there whatever the files: none, /k, or /k with
\* an empty userdata and an empty addons
BackupDirs ==
    { {}, {Pth(<<"k">>)}, {Pth(<<"k", "userdata">>), Pth(<<"k", "addons">>)} }

BackupFileSystems ==
    {MkFs(TreeOf(pairs), extra) :
        pairs \in {ps \in SUBSET BackupUniverse :
                      Cardinality(ps) <= MaxBackupFiles /\ Consistent(ps)},
        extra \in BackupDirs}

\* no file where MkFs has a directory
WellFormed(f) == f.dirs \cap DOMAIN f.files = {}

BackupSettings ==
    { [given |-> FALSE, map |-> <<>>],
      [given |-> TRUE, map |-> default_settings],
      [given |-> TRUE, map |-> [k \in CatalogKeys |-> FALSE]] }

BackupArgs(plat, sinks) ==
    {[kodi_path |-> Abs(plat, "k"), backup_destination |-> Abs(plat, "o"),
      label |-> "l", cleanup_settings |-> st, sink |-> sk] :
        st \in BackupSettings, sk \in sinks}

InitBackupWith(sinks) ==
    /\ platform \in Platforms
    /\ cwd = <<>>
    /\ pf = NoPf
    /\ fs \in {f \in BackupFileSystems : WellFormed(f)}
    /\ zip = Container(FALSE, "zip", "ok", <<>>)
    /\ arg \in BackupArgs(platform, sinks)
    /\ pc = "b_validate"
    /\ loc = NoLoc
    /\ res = BackupResults
    /\ hist = NewHist(fs)

InitBackup == InitBackupWith({"ok"})

SpecBackup == InitBackup /\ [][NextBackup]_vars

-----------------------------------------------------------------------------
(* Properties of PerformFullBackup *)

SourceUserdata == Append(KodiAbs, UserdataSeg)

SourceAddons == Append(KodiAbs, AddonsSeg)

\* the source holds a directory userdata and a directory addons
SourceHasBothDirs ==
    IsDir(hist.fs0, SourceUserdata) /\ IsDir(hist.fs0, SourceAddons)

\* the call came back with success false and a message after its first
\* step, and neither the file system nor the archive file was touched
RefusedAtOnce ==
    /\ StepNames \subseteq {"validate"}
    /\ fs = hist.fs0
    /\ ~zip.exists
    /\ ~res.success
    /\ hist.steps # <<>> => (pc = "done" /\ res.error_message # "")

\* C18: when the source does not hold both a userdata and an addons
\* subdirectory, PerformFullBackup returns success false with a message and
\* does not start: no cleanup target is deleted, no archive file is made.
C18_InvalidSourceRefused ==
    ~SourceHasBothDirs => RefusedAtOnce

\* a source whose userdata is a file: the backup succeeds and the archive
\* holds no member under userdata
C18_Divergence ==
    /\ SourceUserdata \in DOMAIN hist.fs0.files
    /\ IsDir(hist.fs0, SourceAddons)
    /\ pc = "done" /\ res.success /\ res.error_message = ""
    /\ zip.exists /\ zip.members # <<>> /\ ~HasMemberUnder(UserdataSeg)
    /\ ~pf.build.mkdir /\ ~pf.build.open /\ ~pf.build.close /\ pf.build.files = {}

\* what the code refuses: a source in which one of the two names is missing
C18_MissingNameRefused ==
    (~Exists(hist.fs0, SourceUserdata) \/ ~Exists(hist.fs0, SourceAddons))
        => RefusedAtOnce

-----------------------------------------------------------------------------
(* The three operations that return a result record (PerformFullBackup,     *)
(* PerformRestore, Validate), each with a sink that works and with a sink   *)
(* that raises.                                                             *)

Sinks == {"ok", "raises"}

\* the archives of the restore runs that hold at most two members
RecordArchives == {z \in RestoreArchives : Len(z.members) <= 2}

InitRecordsRestore ==
    /\ platform \in Platforms
    /\ cwd = <<>>
    /\ pf = NoPf
    /\ fs \in RestoreFileSystems
    /\ zip \in RecordArchives
    /\ arg \in {[target |-> t, sink |-> sk] :
                   t \in RestoreTargets(platform), sk \in Sinks}
    /\ pc = "validate"
    /\ loc = NoLoc
    /\ res = RestoreResults
    /\ hist = NewHist(fs)

InitRecordsValidate ==
    /\ platform \in Platforms
    /\ cwd = <<>>
    /\ pf = NoPf
    /\ fs = EmptyFs
    /\ zip \in {z \in ValidateArchives : Len(z.members) <= 2}
    /\ arg \in {[backup_file_path |-> "b", sink |-> sk] : sk \in Sinks}
    /\ pc = "validate_call"
    /\ loc = NoLoc
    /\ res = RestoreResults
    /\ hist = NewHist(fs)

InitRecords ==
    \/ InitRecordsRestore
    \/ InitRecordsValidate
    \/ InitBackupWith(Sinks)

NextRecords == Next \/ NextBackup \/ NextValidate

SpecRecords == InitRecords /\ [][NextRecords]_vars

-----------------------------------------------------------------------------
(* Properties of the result records *)

RestoreRun == "target" \in DOMAIN arg

BackupRun == "label" \in DOMAIN arg

\* C15: PerformFullBackup and PerformRestore never let a fault reach their
\* caller, whichever step fails (a call of the file system, of the archive,
\* or the progress sink): no run ends with an exception leaving the call.
C15_NeverPropagates ==
    (RestoreRun \/ BackupRun) => pc # "raised"

\* a backup of a Kodi folder whose sink raises: the exception leaves
\* perform_full_backup after its first step
C15_Divergence ==
    /\ BackupRun /\ SinkRaises /\ SourceHasBothDirs
    /\ pc = "raised" /\ StepNames = {"validate"}
    /\ ~hist.faults

\* a restore of a valid archive whose sink raises: the target is created
\* and the exception leaves perform_restore
C15_DivergenceRestore ==
    /\ RestoreRun /\ SinkRaises /\ pc = "raised"
    /\ ~hist.faults
    /\ ~Exists(hist.fs0, TargetAbs) /\ IsDir(fs, TargetAbs)

\* with a sink that takes every message both calls come back with a record,
\* whatever call of the file system or of the archive fails
C15_ReturnsUnlessSinkRaises ==
    pc = "raised" => SinkRaises

\* C16: in every record returned by PerformFullBackup, PerformRestore and
\* Validate, success (or valid) false goes with a message and success (or
\* valid) true with an empty message.
C16_MessageIffFailure ==
    /\ (pc = "done" /\ (RestoreRun \/ BackupRun))
          => (res.success <=> res.error_message = "")
    /\ ValidateCalled
          => (pf.results.valid <=> pf.results.error_message = "")

\* Validate of a good archive with a sink that raises: the record says
\* valid and carries a message
C16_Divergence ==
    /\ ValidateCalled /\ SinkRaises /\ pc = "done"
    /\ zip.exists /\ zip.state = "ok"
    /\ pf.results.valid
    /\ pf.results.error_message = "Error validating backup file"
    /\ pf.results.userdata_files = 1 /\ pf.results.addons_files = 1

\* the records of the runs whose sink takes every message
C16_QuietSink ==
    ~SinkRaises => C16_MessageIffFailure

-----------------------------------------------------------------------------
(* Properties of Extract: write failures *)

ExtractCalled == pc = "done" /\ pf.fn = "extract_backup_with_progress"

FileMembers ==
    {i \in 1..Len(zip.members) : ~is_dir(infolist(platform, zip)[i].filename)}

\* every file member, its name normalised, passes IsSafeMember
AllFilesSafe ==
    \A i \in FileMembers :
        _is_safe_zip_member(platform, cwd, arg.target,
            ReplaceBackslash(infolist(platform, zip)[i].filename))

DestOf(i) ==
    DestPath(platform, cwd, arg.target, infolist(platform, zip)[i].filename)

\* the last of the written members that lies at the place of member i
LastAt(i) ==
    CHOOSE j \in FileMembers \ pf.failed :
        /\ DestOf(j) = DestOf(i)
        /\ \A k \in FileMembers \ pf.failed : DestOf(k) = DestOf(i) => k <= j

\* C21: when the archive opens and every file member passes IsSafeMember,
\* Extract returns true however many members could not be written; every
\* member whose write raised is counted, the count is the number of such
\* members, and every other file member lies at its place with its data.
C21_WriteFailuresCounted ==
    (ExtractCalled /\ pf.opened /\ zip.state = "ok" /\ AllFilesSafe) =>
        /\ pf.result
        /\ pf.failset \cap FileMembers \subseteq pf.failed
        /\ pf.failed \subseteq FileMembers
        /\ hist.skipped = Cardinality(pf.failed)
        /\ \A i \in FileMembers \ pf.failed :
              /\ DestOf(i) \in hist.written
              /\ DestOf(i) \in DOMAIN fs.files
              /\ fs.files[DestOf(i)] = zip.members[LastAt(i)].data

\* three file members, the second could not be written, the third is there
C21_Witness ==
    /\ ExtractCalled /\ pf.opened /\ zip.state = "ok" /\ AllFilesSafe
    /\ FileMembers = {1, 2, 3} /\ pf.failset = {2} /\ pf.failed = {2}
    /\ pf.result /\ hist.skipped = 1
    /\ DestOf(3) \in hist.written

\* no member at all could be written and the call still returns true
C21_WitnessAllFailed ==
    /\ ExtractCalled /\ pf.opened /\ zip.state = "ok" /\ AllFilesSafe
    /\ FileMembers = {1, 2, 3} /\ pf.failed = {1, 2, 3}
    /\ pf.result /\ hist.written = {} /\ fs = hist.fs0

-----------------------------------------------------------------------------
(* Properties of Build: traversals *)

\* C22: in one call of Build that came to write the archive, each of the two
\* directories that exists is walked exactly once.
C22_OneTraversal ==
    (BuildCalled /\ ~pf.raised /\ ~pf.fault.open) =>
        \A seg \in {UserdataSeg, AddonsSeg} :
            Exists(hist.fs0, Append(KodiAbs, seg)) => pf.walks[seg] = 1

\* a successful call that walked userdata twice and addons twice
C22_Divergence ==
    /\ BuildCalled /\ pf.ok /\ SourceHasBoth
    /\ ~hist.faults
    /\ pf.walks[UserdataSeg] = 2 /\ pf.walks[AddonsSeg] = 2

\* what holds: a directory is walked once to count its files and once more
\* to write them, never more often, and a directory that is missing not at all
C22_AtMostTwoTraversals ==
    BuildCalled =>
        \A seg \in {UserdataSeg, AddonsSeg} :
            /\ pf.walks[seg] <= 2
            /\ (pf.ok /\ Exists(hist.fs0, Append(KodiAbs, seg))) => pf.walks[seg] = 2
            /\ ~Exists(hist.fs0, Append(KodiAbs, seg)) => pf.walks[seg] = 0

-----------------------------------------------------------------------------
(* Properties of Build: the way failures are reported *)

\* C23: Build never ends in an exception, whatever fails, a destination
\* directory that cannot be made included; it returns a pair, and the total
\* of a pair with success = false is 0.
C23_ReturnsPair ==
    BuildCalled =>
        /\ ~pf.raised
        /\ ~pf.ok => pf.size = 0

\* the destination directory could not be made and the call raised; nothing
\* was written and no archive is there
C23_Divergence ==
    /\ BuildCalled /\ pf.fault.mkdir
    /\ pf.raised
    /\ fs = hist.fs0 /\ ~zip.exists

\* what holds: once the destination directory is there the call returns a
\* pair, and the total that goes with success = false is 0
C23_ReturnsOnceDestinationMade ==
    (BuildCalled /\ ~pf.fault.mkdir) =>
        /\ ~pf.raised
        /\ ~pf.ok => pf.size = 0

\* the archive could not be opened for writing: (false, 0) is returned
C23_OpenFailureReturned ==
    /\ BuildCalled /\ ~pf.fault.mkdir /\ pf.fault.open
    /\ ~pf.raised /\ ~pf.ok /\ pf.size = 0

-----------------------------------------------------------------------------
(* KodiBackupApp: the main thread, which runs the handlers of the window,   *)
(* and the backup worker threads it starts.                                 *)
(*   pf   the fields of the application object: backup_in_progress and the  *)
(*        dictionary cleanup_settings;                                      *)
(*   loc  the main thread: dialogs, the calls of start_backup that wait in  *)
(*        askokcancel (the last one is the dialog on top, whose event loop  *)
(*        runs the handlers meanwhile), and the number of calls and saves;  *)
(*   res  the worker threads in the order they were started: pc, the index  *)
(*        i of the next cleanup target, the results of the engine, what was *)
(*        the case when the thread was started, and whether settings were   *)
(*        saved while it ran.                                               *)

MaxStarts == 2

MaxSaves == 1

\* what the check boxes of the settings dialog may hold at Save
DialogChoices ==
    { default_settings,
      [k \in CatalogKeys |-> FALSE],
      [default_settings EXCEPT !.thumbnails = FALSE] }

GuiKodi == Abs("posix", "k")

GuiDest == Abs("posix", "o")

\* a Kodi folder /k with a thumbnail and a package, and the destination /o
GuiFileSystem ==
    MkFs(Pth(<<"k", "userdata", "a">>) :> "x"
         @@ Pth(<<"k", "userdata", "Thumbnails", "t">>) :> "yy"
         @@ Pth(<<"k", "addons", "packages", "p.zip">>) :> "old",
         {Pth(<<"o">>)})

InitGui ==
    /\ platform = "posix"
    /\ cwd = <<>>
    /\ pf \in {[fn |-> "KodiBackupApp", backup_in_progress |-> FALSE,
                cleanup_settings |-> st] :
                  st \in {default_settings, [k \in CatalogKeys |-> FALSE]}}
    /\ fs = GuiFileSystem
    /\ zip = Container(FALSE, "zip", "ok", <<>>)
    /\ arg = [kodi_path |-> GuiKodi, backup_destination |-> GuiDest]
    /\ pc = "mainloop"
    /\ loc = [dialogs |-> <<>>, starts |-> 0, saves |-> 0, reentered |-> FALSE]
    /\ res = <<>>
    /\ hist = NewHist(fs)

Running == {w \in 1..Len(res) : res[w].pc # "ended"}

\* start_backup, lines 428-449: the guard, the two paths (both are filled
\* in), and the confirmation dialog, in which the call waits
StartBackup ==
    /\ loc.starts < MaxStarts
    /\ IF pf.backup_in_progress
       THEN loc' = [loc EXCEPT !.starts = @ + 1]
       ELSE loc' = [loc EXCEPT !.starts = @ + 1,
                               !.dialogs = Append(@, loc.starts + 1),
                               !.reentered = @ \/ loc.dialogs # <<>>]
    /\ pc' = IF loc'.dialogs = <<>> THEN "mainloop" ELSE "askokcancel"
    /\ UNCHANGED <<platform, cwd, pf, fs, zip, arg, res, hist>>

\* start_backup, lines 449-481: the dialog on top is answered; the paths are
\* looked up, backup_in_progress is set and the worker thread is started
AnswerDialog ==
    /\ loc.dialogs # <<>>
    /\ \E confirmed \in BOOLEAN :
          LET call == loc.dialogs[Len(loc.dialogs)]
              goes == /\ confirmed
                      /\ Exists(fs, abspath(platform, cwd, arg.kodi_path))
                      /\ Exists(fs, abspath(platform, cwd, arg.backup_destination))
              worker == [pc |-> "w_begin", i |-> 1, call |-> call,
                         flag_at_start |-> pf.backup_in_progress,
                         running_at_start |-> Running,
                         settings_at_start |-> pf.cleanup_settings,
                         saved |-> FALSE,
                         used |-> <<>>, results |-> <<>>, total |-> 0,
                         success |-> FALSE, raised |-> FALSE]
          IN  /\ loc' = [loc EXCEPT !.dialogs = SubSeq(@, 1, Len(@) - 1)]
              /\ pf' = IF goes THEN [pf EXCEPT !.backup_in_progress = TRUE] ELSE pf
              /\ res' = IF goes THEN Append(res, worker) ELSE res
    /\ pc' = IF loc'.dialogs = <<>> THEN "mainloop" ELSE "askokcancel"
    /\ UNCHANGED <<platform, cwd, fs, zip, arg, hist>>

\* _save_settings, lines 976-999: the values of the check boxes are written
\* into the dictionary, key by key
SaveSettings ==
    /\ loc.saves < MaxSaves
    /\ loc.dialogs = <<>>
    /\ \E new \in DialogChoices :
          pf' = [pf EXCEPT !.cleanup_settings = new]
    /\ loc' = [loc EXCEPT !.saves = @ + 1]
    /\ res' = [w \in 1..Len(res) |->
                  IF res[w].pc # "ended" THEN [res[w] EXCEPT !.saved = TRUE]
                  ELSE res[w]]
    /\ UNCHANGED <<platform, cwd, fs, zip, arg, pc, hist>>

\* _perform_backup_thread, lines 486-504, and perform_full_backup up to the
\* cleanup loop: cleanup_settings = self.cleanup_settings names the
\* dictionary of the application, it is no copy of it
WorkerBegin(w) ==
    /\ res[w].pc = "w_begin"
    /\ res' = [res EXCEPT ![w].pc =
                  IF validate_kodi_directory(platform, cwd, fs, arg.kodi_path)
                  THEN "w_clean" ELSE "w_summary"]
    /\ UNCHANGED <<platform, cwd, pf, fs, zip, arg, pc, loc, hist>>

\* one turn of the loop of cleanup_cache_files, lines 227-271: the key is
\* looked up in the dictionary as it is now
WorkerCleanTarget(w) ==
    /\ res[w].pc = "w_clean"
    /\ LET target == all_cleanup_targets[res[w].i]
           acc == CleanOne(abspath(platform, cwd, arg.kodi_path),
                           pf.cleanup_settings, target,
                           [fail |-> {}, kept |-> {}, unsized |-> {}],
                           [results |-> res[w].results, measured |-> <<>>,
                            total |-> res[w].total, fs |-> fs])
       IN  /\ fs' = acc.fs
           /\ res' = [res EXCEPT
                         ![w].used = Append(@, Get(pf.cleanup_settings,
                                                   target.key, FALSE)),
                         ![w].results = acc.results,
                         ![w].total = acc.total,
                         ![w].i = @ + 1,
                         ![w].pc = IF res[w].i = Len(all_cleanup_targets)
                                   THEN "w_archive" ELSE "w_clean"]
    /\ UNCHANGED <<platform, cwd, pf, zip, arg, pc, loc, hist>>

\* perform_full_backup, lines 443-468: the archive
WorkerArchive(w) ==
    /\ res[w].pc = "w_archive"
    /\ \E fault \in {ft \in BackupBuildFaults(fs, abspath(platform, cwd, arg.kodi_path)) :
                        ft.files = {} /\ ~ft.rev /\ ~ft.close} :
          LET r == create_backup_archive(platform, cwd, fs, zip, arg.kodi_path,
                                         arg.backup_destination, "zip", fault)
          IN  /\ fs' = r.fs
              /\ zip' = r.zip
              /\ res' = [res EXCEPT ![w].success = r.ok,
                                    ![w].pc = "w_summary"]
    /\ UNCHANGED <<platform, cwd, pf, arg, pc, loc, hist>>

\* _perform_backup_thread, lines 506-512: the summary, which may raise, the
\* handler, and _reset_ui_state in the finally clause
WorkerFinish(w) ==
    /\ res[w].pc = "w_summary"
    /\ \E raises \in BOOLEAN :
          res' = [res EXCEPT ![w].raised = raises, ![w].pc = "ended"]
    /\ pf' = [pf EXCEPT !.backup_in_progress = FALSE]
    /\ UNCHANGED <<platform, cwd, fs, zip, arg, pc, loc, hist>>

NextGui ==
    \/ StartBackup
    \/ AnswerDialog
    \/ SaveSettings
    \/ \E w \in 1..Len(res) : WorkerBegin(w)
    \/ \E w \in 1..Len(res) : WorkerCleanTarget(w)
    \/ \E w \in 1..Len(res) : WorkerArchive(w)
    \/ \E w \in 1..Len(res) : WorkerFinish(w)

SpecGui == InitGui /\ [][NextGui]_vars

-----------------------------------------------------------------------------
(* Properties of KodiBackupApp *)

Workers == 1..Len(res)

ThumbnailsDir == Pth(<<"k", "userdata", "Thumbnails">>)

\* C24: a backup acts on the cleanup keys that were enabled when it was
\* started: for every target its worker has come to, the value it read is
\* the value the dictionary held when the thread was started.
C24_SettingsAtStart ==
    \A w \in Workers : \A j \in 1..Len(res[w].used) :
        res[w].used[j] = res[w].settings_at_start[all_cleanup_targets[j].key]

\* a backup started with thumbnails turned off has deleted the thumbnails
C24_Divergence ==
    \E w \in Workers :
        /\ res[w].pc = "ended" /\ res[w].saved
        /\ ~res[w].settings_at_start.thumbnails
        /\ res[w].results[1] = [name |-> "Thumbnails", ok |-> TRUE]
        /\ ~Exists(fs, ThumbnailsDir) /\ Exists(hist.fs0, ThumbnailsDir)

\* what holds: a backup during which no settings were saved acts on the
\* keys of its start
C24_StableWithoutSave ==
    \A w \in Workers : ~res[w].saved =>
        \A j \in 1..Len(res[w].used) :
            res[w].used[j] = res[w].settings_at_start[all_cleanup_targets[j].key]

\* C30: at most one backup worker runs at any time, no worker is started
\* while backup_in_progress is true, and backup_in_progress is false again
\* once every started backup has ended.
C30_OneWorker ==
    /\ Cardinality(Running) <= 1
    /\ \A w \in Workers : ~res[w].flag_at_start
    /\ (Running = {} /\ loc.dialogs = <<>>) => ~pf.backup_in_progress

\* start_backup was called again while the first call waited in the
\* confirmation dialog: two workers run, the second was started while
\* backup_in_progress was true
C30_Divergence ==
    /\ loc.reentered
    /\ Cardinality(Running) = 2
    /\ res[2].flag_at_start /\ res[2].running_at_start = {1}

\* what holds: when no call of start_backup is made while another waits in
\* its dialog, one worker at most runs and none is started while the flag
\* is set; and in every run the flag is false once all workers have ended
C30_OneWorkerWithoutReentry ==
    /\ ~loc.reentered =>
          /\ Cardinality(Running) <= 1
          /\ \A w \in Workers : ~res[w].flag_at_start
          /\ Running # {} => pf.backup_in_progress
    /\ (Running = {} /\ loc.dialogs = <<>>) => ~pf.backup_in_progress

\* a worker that raised has reset the flag all the same
C30_ResetAfterRaise ==
    /\ Len(res) = 1 /\ res[1].pc = "ended" /\ res[1].raised
    /\ ~pf.backup_in_progress

-----------------------------------------------------------------------------
(* Properties of the restore runs: the pre-scan and the check of Extract *)

PreScanPassed ==
    \E i \in 1..Len(hist.steps) : hist.steps[i] = [step |-> "prescan", ok |-> TRUE,
                                                    fault |-> FALSE]

ExtractRan == pc = "done" /\ "extract" \in StepNames

\* C25: in a restore whose pre-scan passed, Extract does not come to refuse
\* a member as unsafe: both test the name with its backslashes turned into
\* slashes against the same target.
C25_ExtractAbortUnreachable ==
    (ExtractRan /\ PreScanPassed) => hist.unsafe = 0

\* a restore whose pre-scan passed an archive with the directory entry
\* addons/ and two files, and whose extraction then wrote both files
C25_Witness ==
    /\ ExtractRan /\ PreScanPassed
    /\ Len(zip.members) = 3
    /\ \E i \in 1..3 : zip.members[i].name = <<"addons", Sep>>
    /\ Cardinality(hist.written) = 2
    /\ hist.unsafe = 0 /\ res.success

-----------------------------------------------------------------------------
(* Properties of the restore runs: what a failed restore leaves *)

RestoreFailed == pc = "done" /\ ~res.success

\* a step that comes before ClearExisting has failed
FailedBeforeClear ==
    \E i \in 1..Len(hist.steps) :
        ~hist.steps[i].ok /\ Rank(hist.steps[i].step) < Rank("clear")

FirstFailed ==
    hist.steps[CHOOSE i \in 1..Len(hist.steps) :
                  /\ ~hist.steps[i].ok
                  /\ \A j \in 1..(i - 1) : hist.steps[j].ok]

\* C26 as claimed: after a restore that returned success = false every file
\* that lay under the target's userdata and addons is there, unchanged.
C26_AsClaimed == RestoreFailed => KodiFilesUnchanged

\* C26: after a restore that returned success = false because a step before
\* ClearExisting failed, every file that lay under the target's userdata
\* and addons is there, unchanged.
C26_KeptWhenFailedBeforeClear ==
    (RestoreFailed /\ FailedBeforeClear) => KodiFilesUnchanged

\* the archive could not be opened for the pre-scan; the Kodi folder is whole
C26_Witness ==
    /\ RestoreFailed /\ FailedBeforeClear
    /\ HeldBoth /\ Cardinality(OldKodiFiles) = 2
    /\ LastStep = [step |-> "prescan", ok |-> FALSE, fault |-> TRUE]
    /\ KodiFilesUnchanged

\* the clear went through, the archive could not be opened for Extract: the
\* restore failed and the old files are gone
C26_LostAfterClear ==
    /\ RestoreFailed /\ HeldBoth
    /\ LastStep.step = "extract"
    /\ OldKodiFiles # {} /\ \A p \in OldKodiFiles : p \notin DOMAIN fs.files

\* the clear itself failed part-way: some old files are gone, some are left
C26_LostInClear ==
    /\ RestoreFailed /\ HeldBoth
    /\ LastStep.step = "clear"
    /\ \E p \in OldKodiFiles : p \notin DOMAIN fs.files
    /\ \E p \in OldKodiFiles : p \in DOMAIN fs.files

\* C27 as claimed: after a restore that failed at a step before
\* ClearExisting the file system is as it was before the call.
C27_AsClaimed ==
    (RestoreFailed /\ FailedBeforeClear) => fs = hist.fs0

\* C27: after a restore that failed at a step before ClearExisting no file
\* is added, removed or changed and no directory is removed; the only
\* directories added are the target and the directories above it, and none
\* is added when the target existed or the failing step was the validation
\* of the archive or the root check.
C27_OnlyTargetCreated ==
    (RestoreFailed /\ FailedBeforeClear) =>
        /\ fs.files = hist.fs0.files
        /\ hist.fs0.dirs \subseteq fs.dirs
        /\ fs.dirs \ hist.fs0.dirs \subseteq Prefixes(TargetAbs)
        /\ (TargetExisted \/ FirstFailed.step \in {"validate", "root"}) =>
              fs = hist.fs0

\* the target was missing, it was made, and the pre-scan then refused the
\* archive: the empty target is left behind
C27_Witness ==
    /\ RestoreFailed /\ FailedBeforeClear
    /\ ~TargetExisted
    /\ LastStep = [step |-> "prescan", ok |-> FALSE, fault |-> FALSE]
    /\ fs.dirs = hist.fs0.dirs \cup {TargetAbs}
    /\ fs.files = hist.fs0.files

\* the validator refused the archive: the missing target was not made
C27_WitnessValidation ==
    /\ RestoreFailed /\ ~TargetExisted
    /\ LastStep.step = "validate" /\ fs = hist.fs0

-----------------------------------------------------------------------------
(* Properties of the restore runs: where the files are written *)

UnderKodiDirs(p) == Under(TargetUserdata, p) \/ Under(TargetAddons, p)

\* C28: every file a restore writes lies under the target's userdata or
\* addons.
C28_OnlyTwoSubtrees ==
    \A p \in hist.written : UnderKodiDirs(p)

\* an archive the validator accepted held the member x.txt beside userdata/a
\* and addons/b; the restore succeeded and wrote x.txt into the target
C28_Divergence ==
    /\ pc = "done" /\ res.success /\ ArchiveValid
    /\ Append(TargetAbs, <<"x.txt">>) \in hist.written
    /\ Append(TargetAbs, <<"x.txt">>) \notin DOMAIN hist.fs0.files
    /\ Append(TargetAbs, <<"x.txt">>) \in DOMAIN fs.files

\* what holds: every file written lies under the target, and it lies under
\* userdata or addons when the first segment of every file member is one of
\* the two names
C28_WithinTarget ==
    /\ \A p \in hist.written : Under(TargetAbs, p) /\ p # TargetAbs
    /\ (\A i \in 1..Len(zip.members) :
           \/ is_dir(zip.members[i].name)
           \/ FirstSegment(ReplaceBackslash(zip.members[i].name))
                 \in {UserdataSeg, AddonsSeg})
          => \A p \in hist.written : UnderKodiDirs(p)

-----------------------------------------------------------------------------
(* Properties of PerformFullBackup: cleanup before archive *)

ArchiveStepRan == pc = "done" /\ "archive" \in StepNames

StepIndex(name) == CHOOSE i \in 1..Len(hist.steps) : hist.steps[i].step = name

\* the names the files under target i would have as members
MemberNamesOfTarget(i) ==
    {Arcname(relpath(platform, q, KodiAbs)) :
        q \in FilesUnder(hist.fs0, PathOfTarget(i))}

CleanedTargets == {i \in Catalog : res.cleanup_results[i].ok}

\* C29: in a backup that came to its archive step the cleanup pass was over
\* before; no file that lay under a target recorded true is a member of the
\* archive; and on success size_before_cleanup = size_after_cleanup +
\* space_freed.
C29_CleanupBeforeArchive ==
    ArchiveStepRan =>
        /\ "cleanup" \in StepNames
        /\ StepIndex("cleanup") < StepIndex("archive")
        /\ Len(res.cleanup_results) = Len(all_cleanup_targets)
        /\ \A i \in CleanedTargets : MemberNamesOfTarget(i) \cap NamesIn(zip) = {}
        /\ res.success =>
              res.size_before_cleanup = res.size_after_cleanup + res.space_freed

\* the thumbnails were deleted (2 bytes), the file userdata/a was archived
\* and the thumbnail was not
C29_Witness ==
    /\ ArchiveStepRan /\ res.success
    /\ 1 \in CleanedTargets
    /\ MemberNamesOfTarget(1) = {<<"userdata", Sep, "Thumbnails", Sep, "t">>}
    /\ NamesIn(zip) = {<<"userdata", Sep, "a">>}
    /\ res.space_freed = 2 /\ res.size_after_cleanup = 1
    /\ res.size_before_cleanup = 3

====
